---- MODULE Spec2Model ----
(***************************************************************************)
(* Model of memory-failure_clone.c (HW-Poison clone, kernel 2.6.34-rc2):   *)
(* the page-state classifier (error_states / page_action), the unmap and   *)
(* notify protocol (hwpoison_user_mappings, collect_procs, kill_procs_ao), *)
(* the free-page isolation (get_any_page), soft_offline_page__clone and    *)
(* unpoison_memory__clone.                                                 *)
(***************************************************************************)
EXTENDS Integers, Sequences, FiniteSets, TLC

VARIABLES
    page,           \* page[p]: flags, count (_count), mapping, mapcount, ptedirty
    cfg_ext,        \* CONFIG_PAGEFLAGS_EXTENDED of the build
    pa_pc,          \* classifier: "off" | "ready" | "done"
    pa_rule,        \* index into error_states of the rule that was dispatched
    pa_result,      \* outcome returned by ps->action
    pa_count,       \* the local `count' of page_action before the test
    pa_ret,         \* value returned by page_action
    pa_log,         \* printk lines of the dispatch
    hum_pc,         \* hwpoison_user_mappings: "off" | "start" | "dirtyprop" |
                    \*   "collect" | "unmap" | "kill" | "done"
    pte_dirty,      \* a pte of the page carries the dirty bit (page_mkclean)
    hum_kill,       \* local `kill'
    hum_ttu,        \* local `ttu'
    tokill,         \* the notify list: <<[tsk, addr_valid]>>
    hum_i,          \* number of try_to_unmap calls made
    hum_ret,        \* local `ret'
    hum_doit,       \* the `doit' argument kill_procs_ao was called with
    sent,           \* what kill_procs_ao did per entry: <<[tsk, addr_valid, sig]>>
    hum_ev,         \* the calls made so far, in order
    col,            \* collect_procs() run step by step: its position, the
                    \*   process table it walks, its list, slot and locks
    mce_bad_pages,  \* the ledger of poisoned pages
    sleep_lock,     \* holder of lock_system_sleep(), 0 when free
    isolated,       \* isolated[p]: set_migratetype_isolate() is in force
    gen,            \* gen[p]: times the allocator handed the page out
    ncalls,         \* calls of soft_offline_page/unpoison_memory started
    th              \* th[t]: the call thread t is in, its locals, its books

pavars == <<cfg_ext, pa_pc, pa_rule, pa_result, pa_count, pa_ret, pa_log>>

humvars == <<hum_pc, pte_dirty, hum_kill, hum_ttu, tokill, hum_i, hum_ret,
             hum_doit, sent, hum_ev, col>>

offvars == <<mce_bad_pages, sleep_lock, isolated, gen, ncalls, th>>

vars == <<page, pavars, humvars, offvars>>

(***************************************************************************)
(* Bounds of the model.                                                    *)
(***************************************************************************)
NPages == 1
MaxCount == 3
MaxCalls == 3
MaxAlloc == 1
NTasks == 2
MaxVmas == 2
ColMaxVmas == 3

Pages == 1..NPages
Tasks == {1, 2}
Threads == {1, 2}
HP == 1     \* the page the handler works on

(***************************************************************************)
(* errno values used by the file.                                          *)
(***************************************************************************)
EIO == 5
ENXIO == 6
ENOMEM == 12
EBUSY == 16
EFAULT == 14

(***************************************************************************)
(* Page flags.  The names are those of the #define block in front of       *)
(* error_states; the other names are PG_<name> bits the file tests or      *)
(* changes through PageXxx/SetPageXxx/ClearPageXxx.                        *)
(***************************************************************************)
TableFlags(ext) ==
    {"reserved", "slab", "sc", "dirty", "unevict", "mlock", "lru"}
        \cup (IF ext THEN {"head", "tail"} ELSE {"compound"})

NoMapping == [kind |-> "none", wbcap |-> FALSE, hook |-> FALSE, eio |-> FALSE]
AnonMapping == [kind |-> "anon", wbcap |-> FALSE, hook |-> FALSE, eio |-> FALSE]
KsmMapping == [kind |-> "ksm", wbcap |-> FALSE, hook |-> FALSE, eio |-> FALSE]
SwapperSpace == [kind |-> "swap", wbcap |-> FALSE, hook |-> FALSE, eio |-> FALSE]
FileMapping(wb, hk) == [kind |-> "file", wbcap |-> wb, hook |-> hk, eio |-> FALSE]

Mappings ==
    {NoMapping, AnonMapping} \cup {FileMapping(wb, hk) : wb \in BOOLEAN, hk \in BOOLEAN}

\* PAGE_MAPPING_ANON is set in page->mapping (a KSM page has it too).
PageAnon(pg) == pg.mapping.kind \in {"anon", "ksm"}

PageKsm(pg) == pg.mapping.kind = "ksm"

PageCompound(pg) == pg.flags \cap {"head", "tail", "compound"} # {}

\* page_mapping(): swapper_space for a swap-cache page, NULL for an
\* anonymous page, page->mapping otherwise.
page_mapping(pg) ==
    IF "sc" \in pg.flags THEN SwapperSpace
    ELSE IF PageAnon(pg) THEN NoMapping
    ELSE pg.mapping

page_mapped(pg) == pg.mapcount > 0

PageHWPoison(pg) == "hwpoison" \in pg.flags

PageLRU(pg) == "lru" \in pg.flags

\* A variant of the release of a page that clears every flag.
free_page_allflags(pg) ==
    [flags |-> {}, count |-> 0, mapping |-> NoMapping, mapcount |-> 0]

\* A page whose last reference is dropped goes back to the allocator: off
\* the LRU, no mapping, its state bits reset.  PG_hwpoison stays: "the
\* PG_hwpoison page will be caught and isolated on the entrance to the free
\* buddy page pool".
free_page(pg) ==
    [flags |-> pg.flags \cap {"hwpoison"}, count |-> 0, mapping |-> NoMapping,
     mapcount |-> 0]

\* put_page()/page_cache_release(): drop one reference.
put_page(pg) ==
    IF pg.count = 1 THEN free_page(pg) ELSE [pg EXCEPT !.count = @ - 1]

\* get_page_unless_zero()
get_page_unless_zero(pg) ==
    IF pg.count = 0
    THEN [page |-> pg, ok |-> FALSE]
    ELSE [page |-> [pg EXCEPT !.count = @ + 1], ok |-> TRUE]

\* is_free_buddy_page__clone(): the page lies in a free block of the buddy
\* lists (PageBuddy on the head of its block).
is_free_buddy_page(pg) == "buddy" \in pg.flags

(***************************************************************************)
(* Collaborators called by the recovery actions.                           *)
(***************************************************************************)

\* isolate_lru_page(): 0 and the page taken off the LRU with one more
\* reference, or -EBUSY when the page is not on the LRU.
isolate_lru_page(pg) ==
    IF "lru" \in pg.flags /\ pg.count > 0
    THEN [page |-> [pg EXCEPT !.flags = @ \ {"lru"}, !.count = @ + 1], ret |-> 0]
    ELSE [page |-> pg, ret |-> -EBUSY]

\* try_to_release_page() on a page with private buffers: relok is the file
\* system's answer.
\* invalidate_inode_page(): 1 when the page was dropped from its mapping;
\* "This fails on dirty or anything with private pages".  The page leaves
\* its mapping only when the page cache and the caller hold the only
\* references on it (remove_mapping() takes the page at a count of
\* exactly 2); the caller's reference is the one left.  The buffers are
\* released and PG_mlocked is cleared before that test is made.
invalidate_inode_page(pg, relok) ==
    IF /\ page_mapping(pg) # NoMapping
       /\ pg.flags \cap {"dirty", "writeback"} = {}
       /\ ~page_mapped(pg)
       /\ ("private" \in pg.flags => relok)
    THEN LET released == [pg EXCEPT !.flags = @ \ {"private", "mlock"}] IN
         IF pg.count = 2
         THEN [page |-> [released EXCEPT !.mapping = NoMapping,
                                         !.count = @ - 1],
               ret |-> 1]
         ELSE [page |-> released, ret |-> 0]
    ELSE [page |-> pg, ret |-> 0]

\* mapping->a_ops->error_remove_page(): the truncate of the page out of its
\* file (err = 0), or an error of the file system.
error_remove_page(pg, hookerr) ==
    IF hookerr
    THEN [page |-> pg, err |-> -EIO]
    ELSE [page |-> [pg EXCEPT !.flags = @ \ {"dirty"},
                              !.mapping = NoMapping,
                              !.count = @ - 1],
          err |-> 0]

\* delete_from_swap_cache(): out of the swap cache, its reference dropped.
delete_from_swap_cache(pg) ==
    [pg EXCEPT !.flags = @ \ {"sc"}, !.count = @ - 1]

(***************************************************************************)
(* Recovery actions.  Each returns the page after the action, the outcome  *)
(* and the lines it printed, in order.  ext holds the answers of the file system:    *)
(* ext.hookerr (error_remove_page failed), ext.relok (try_to_release_page  *)
(* succeeded).                                                             *)
(***************************************************************************)
Outcomes == {"IGNORED", "FAILED", "DELAYED", "RECOVERED"}

delete_from_lru_cache(pg) ==
    LET iso == isolate_lru_page(pg) IN
    IF iso.ret = 0
    THEN [page |-> put_page([iso.page EXCEPT !.flags = @ \ {"active", "unevict"}]),
          ret |-> 0]
    ELSE [page |-> pg, ret |-> -EIO]

me_kernel(pg, ext) ==
    [page |-> pg, result |-> "IGNORED", log |-> <<>>]

\* A variant of me_unknown() that reports the page as ignored.
me_unknown_ignored(pg, ext) ==
    [page |-> pg, result |-> "IGNORED", log |-> <<<<"Unknown page state">>>>]

me_unknown(pg, ext) ==
    [page |-> pg, result |-> "FAILED", log |-> <<<<"Unknown page state">>>>]

\* A variant of me_pagecache_clean() without the test of PageAnon.
me_pagecache_clean_noanon(pg, ext) ==
    LET p1 == delete_from_lru_cache(pg).page
        mp == page_mapping(p1)
    IN  IF mp = NoMapping
        THEN [page |-> p1, result |-> "FAILED", log |-> <<>>]
        ELSE LET inv == invalidate_inode_page(p1, ext.relok) IN
             IF inv.ret # 0
             THEN [page |-> inv.page, result |-> "RECOVERED", log |-> <<>>]
             ELSE [page |-> inv.page, result |-> "FAILED",
                   log |-> <<<<"Failed to invalidate">>>>]

me_pagecache_clean(pg, ext) ==
    LET p1 == delete_from_lru_cache(pg).page
        mp == page_mapping(p1)
    IN  IF PageAnon(p1)
        THEN [page |-> p1, result |-> "RECOVERED", log |-> <<>>]
        ELSE IF mp = NoMapping
        THEN [page |-> p1, result |-> "FAILED", log |-> <<>>]
        ELSE IF mp.hook
        THEN LET rm == error_remove_page(p1, ext.hookerr) IN
             IF rm.err # 0
             THEN [page |-> rm.page, result |-> "FAILED",
                   log |-> <<<<"Failed to punch page">>>>]
             ELSE IF "private" \in rm.page.flags /\ ~ext.relok
             THEN [page |-> rm.page, result |-> "FAILED",
                   log |-> <<<<"failed to release buffers">>>>]
             ELSE [page |-> [rm.page EXCEPT !.flags = @ \ {"private"}],
                   result |-> "RECOVERED", log |-> <<>>]
        ELSE LET inv == invalidate_inode_page(p1, ext.relok) IN
             IF inv.ret # 0
             THEN [page |-> inv.page, result |-> "RECOVERED", log |-> <<>>]
             ELSE [page |-> inv.page, result |-> "FAILED",
                   log |-> <<<<"Failed to invalidate">>>>]

me_pagecache_dirty(pg, ext) ==
    LET mp == page_mapping(pg)
        p1 == [pg EXCEPT !.flags = @ \cup {"error"},
                         !.mapping = IF mp # NoMapping /\ mp.kind = "file"
                                     THEN [@ EXCEPT !.eio = TRUE] ELSE @]
    IN  me_pagecache_clean(p1, ext)

me_swapcache_dirty(pg, ext) ==
    LET p1 == [pg EXCEPT !.flags = @ \ {"dirty", "uptodate"}]
        d == delete_from_lru_cache(p1)
    IN  IF d.ret = 0
        THEN [page |-> d.page, result |-> "DELAYED", log |-> <<>>]
        ELSE [page |-> d.page, result |-> "FAILED", log |-> <<>>]

me_swapcache_clean(pg, ext) ==
    LET d == delete_from_lru_cache(delete_from_swap_cache(pg))
    IN  IF d.ret = 0
        THEN [page |-> d.page, result |-> "RECOVERED", log |-> <<>>]
        ELSE [page |-> d.page, result |-> "FAILED", log |-> <<>>]

me_huge_page(pg, ext) ==
    [page |-> pg, result |-> "FAILED", log |-> <<>>]

(***************************************************************************)
(* The rule table.                                                         *)
(***************************************************************************)
Rule(m, r, msg, act) == [mask |-> m, res |-> r, msg |-> msg, action |-> act]

\* A variant of the table whose slab rule does not go to me_kernel.
error_states_noslab(ext) ==
    <<Rule({"reserved"}, {"reserved"}, "reserved kernel", "me_kernel"),
      Rule({"slab"}, {"slab"}, "kernel slab", "me_unknown")>>
    \o (IF ext
        THEN <<Rule({"head"}, {"head"}, "huge", "me_huge_page"),
               Rule({"tail"}, {"tail"}, "huge", "me_huge_page")>>
        ELSE <<Rule({"compound"}, {"compound"}, "huge", "me_huge_page")>>)
    \o
    <<Rule({"sc", "dirty"}, {"sc", "dirty"}, "swapcache", "me_swapcache_dirty"),
      Rule({"sc", "dirty"}, {"sc"}, "swapcache", "me_swapcache_clean"),
      Rule({"unevict", "dirty"}, {"unevict", "dirty"}, "unevictable LRU",
           "me_pagecache_dirty"),
      Rule({"unevict"}, {"unevict"}, "unevictable LRU", "me_pagecache_clean"),
      Rule({"mlock", "dirty"}, {"mlock", "dirty"}, "mlocked LRU",
           "me_pagecache_dirty"),
      Rule({"mlock"}, {"mlock"}, "mlocked LRU", "me_pagecache_clean"),
      Rule({"lru", "dirty"}, {"lru", "dirty"}, "LRU", "me_pagecache_dirty"),
      Rule({"lru", "dirty"}, {"lru"}, "clean LRU", "me_pagecache_clean"),
      Rule({}, {}, "unknown page state", "me_unknown")>>

\* A variant of the table with the unevictable rules the other way round.
error_states_cleanfirst(ext) ==
    <<Rule({"reserved"}, {"reserved"}, "reserved kernel", "me_kernel"),
      Rule({"slab"}, {"slab"}, "kernel slab", "me_kernel")>>
    \o (IF ext
        THEN <<Rule({"head"}, {"head"}, "huge", "me_huge_page"),
               Rule({"tail"}, {"tail"}, "huge", "me_huge_page")>>
        ELSE <<Rule({"compound"}, {"compound"}, "huge", "me_huge_page")>>)
    \o
    <<Rule({"sc", "dirty"}, {"sc", "dirty"}, "swapcache", "me_swapcache_dirty"),
      Rule({"sc", "dirty"}, {"sc"}, "swapcache", "me_swapcache_clean"),
      Rule({"unevict"}, {"unevict"}, "unevictable LRU", "me_pagecache_clean"),
      Rule({"unevict", "dirty"}, {"unevict", "dirty"}, "unevictable LRU",
           "me_pagecache_dirty"),
      Rule({"mlock", "dirty"}, {"mlock", "dirty"}, "mlocked LRU",
           "me_pagecache_dirty"),
      Rule({"mlock"}, {"mlock"}, "mlocked LRU", "me_pagecache_clean"),
      Rule({"lru", "dirty"}, {"lru", "dirty"}, "LRU", "me_pagecache_dirty"),
      Rule({"lru", "dirty"}, {"lru"}, "clean LRU", "me_pagecache_clean"),
      Rule({}, {}, "unknown page state", "me_unknown")>>

error_states(ext) ==
    <<Rule({"reserved"}, {"reserved"}, "reserved kernel", "me_kernel"),
      Rule({"slab"}, {"slab"}, "kernel slab", "me_kernel")>>
    \o (IF ext
        THEN <<Rule({"head"}, {"head"}, "huge", "me_huge_page"),
               Rule({"tail"}, {"tail"}, "huge", "me_huge_page")>>
        ELSE <<Rule({"compound"}, {"compound"}, "huge", "me_huge_page")>>)
    \o
    <<Rule({"sc", "dirty"}, {"sc", "dirty"}, "swapcache", "me_swapcache_dirty"),
      Rule({"sc", "dirty"}, {"sc"}, "swapcache", "me_swapcache_clean"),
      Rule({"unevict", "dirty"}, {"unevict", "dirty"}, "unevictable LRU",
           "me_pagecache_dirty"),
      Rule({"unevict"}, {"unevict"}, "unevictable LRU", "me_pagecache_clean"),
      Rule({"mlock", "dirty"}, {"mlock", "dirty"}, "mlocked LRU",
           "me_pagecache_dirty"),
      Rule({"mlock"}, {"mlock"}, "mlocked LRU", "me_pagecache_clean"),
      Rule({"lru", "dirty"}, {"lru", "dirty"}, "LRU", "me_pagecache_dirty"),
      Rule({"lru", "dirty"}, {"lru"}, "clean LRU", "me_pagecache_clean"),
      Rule({}, {}, "unknown page state", "me_unknown")>>

\* (p->flags & ps->mask) == ps->res
RuleMatches(ps, fl) == (fl \cap ps.mask) = ps.res

\* The scan of the table from the top: the first rule that matches.
FirstMatch(ext, fl) ==
    LET tab == error_states(ext) IN
    CHOOSE k \in 1..Len(tab) :
        /\ RuleMatches(tab[k], fl)
        /\ \A j \in 1..(k - 1) : ~RuleMatches(tab[j], fl)

\* ps->action(p, pfn)
CallAction(name, pg, ext) ==
    CASE name = "me_kernel" -> me_kernel(pg, ext)
      [] name = "me_huge_page" -> me_huge_page(pg, ext)
      [] name = "me_swapcache_dirty" -> me_swapcache_dirty(pg, ext)
      [] name = "me_swapcache_clean" -> me_swapcache_clean(pg, ext)
      [] name = "me_pagecache_dirty" -> me_pagecache_dirty(pg, ext)
      [] name = "me_pagecache_clean" -> me_pagecache_clean(pg, ext)
      [] name = "me_unknown" -> me_unknown(pg, ext)

\* action_result(): the "page recovery" line.
action_result(pg, msg, result) ==
    <<<<"page recovery", IF "dirty" \in pg.flags THEN "dirty " ELSE "", msg, result>>>>

\* page_action() without the test of the remaining references.
page_action_nocheck(ps, pg, ext) ==
    LET a == CallAction(ps.action, pg, ext)
        c1 == a.page.count - 1
        c2 == IF ps.action = "me_swapcache_dirty" /\ a.result = "DELAYED"
              THEN c1 - 1 ELSE c1
    IN  [page |-> a.page,
         action_result |-> a.result,
         count |-> c2,
         result |-> a.result,
         log |-> a.log \o action_result(a.page, ps.msg, a.result),
         ret |-> IF a.result \in {"RECOVERED", "DELAYED"} THEN 0 ELSE -EBUSY]

\* page_action() without the expected residual reference of the
\* swap-cache-dirty action.
page_action_noresidual(ps, pg, ext) ==
    LET a == CallAction(ps.action, pg, ext)
        c2 == a.page.count - 1
        result == IF c2 # 0 THEN "FAILED" ELSE a.result
    IN  [page |-> a.page,
         action_result |-> a.result,
         count |-> c2,
         result |-> result,
         log |-> a.log \o action_result(a.page, ps.msg, a.result)
                 \o (IF c2 # 0 THEN <<<<"page still referenced", c2>>>> ELSE <<>>),
         ret |-> IF result \in {"RECOVERED", "DELAYED"} THEN 0 ELSE -EBUSY]

\* page_action(): run the action, then test the reference count that is
\* left beside the handler's own.
page_action(ps, pg, ext) ==
    LET a == CallAction(ps.action, pg, ext)
        c1 == a.page.count - 1
        c2 == IF ps.action = "me_swapcache_dirty" /\ a.result = "DELAYED"
              THEN c1 - 1 ELSE c1
        result == IF c2 # 0 THEN "FAILED" ELSE a.result
    IN  [page |-> a.page,
         action_result |-> a.result,
         count |-> c2,
         result |-> result,
         log |-> a.log \o action_result(a.page, ps.msg, a.result)
                 \o (IF c2 # 0 THEN <<<<"page still referenced", c2>>>> ELSE <<>>),
         ret |-> IF result \in {"RECOVERED", "DELAYED"} THEN 0 ELSE -EBUSY]

(***************************************************************************)
(* The Mapping Collector.  Its input is the process table at the time of   *)
(* the walk: tasks[t] = [mm, pflags] (mm = 0: no address space), the       *)
(* vmas on the page's anon_vma chain / i_mmap tree in the order the inner  *)
(* loop visits them (vmas[i] = [mm, mapped, efault]; an address space may  *)
(* have several of them, or none), the sysctl default, and the results of  *)
(* the allocations (prealloc: kmalloc(GFP_NOIO); allocok[k]: the k-th      *)
(* kmalloc(GFP_ATOMIC) of the walk).                                       *)
(***************************************************************************)
Vmas == [mm : Tasks, mapped : BOOLEAN, efault : BOOLEAN]

\* The chains / trees of at most n vmas taken from the set vs.
RECURSIVE VmaChains(_, _)
VmaChains(vs, n) ==
    IF n = 0 THEN {<<>>}
    ELSE LET shorter == VmaChains(vs, n - 1) IN
         shorter \cup {Append(c, v) : c \in {x \in shorter : Len(x) = n - 1}, v \in vs}

\* One row of the table: a kernel thread (no mm) or a process with its
\* PF_MCE_* flags.
TaskEntries ==
    {[hasmm |-> FALSE, pflags |-> {}]}
    \cup {[hasmm |-> TRUE, pflags |-> f] : f \in SUBSET {"PF_MCE_PROCESS", "PF_MCE_EARLY"}}

\* The tables of the processes in Tasks with chains of at most n vmas.
ProcessTables(n) ==
    {[tasks |-> [t \in Tasks |->
                    [mm |-> IF e[t].hasmm THEN t ELSE 0, pflags |-> e[t].pflags]],
      vmas |-> ch,
      sysctl |-> sc,
      prealloc |-> pa,
      allocok |-> ao] :
        e \in [Tasks -> TaskEntries], ch \in VmaChains(Vmas, n),
        sc \in BOOLEAN, pa \in BOOLEAN, ao \in [1..n -> BOOLEAN]}

task_early_kill(tsk, sysctl) ==
    IF tsk.mm = 0 THEN FALSE
    ELSE IF "PF_MCE_PROCESS" \in tsk.pflags THEN "PF_MCE_EARLY" \in tsk.pflags
    ELSE sysctl

\* A variant that leaves the preallocated slot alone and allocates for
\* every entry.
add_to_kill_noslot(st, t, vma, allocok) ==
    LET tk == [tsk |-> t, addr_valid |-> ~vma.efault]
        st1 == [st EXCEPT !.calls = Append(@, [tsk |-> t, ok |-> allocok])] IN
    IF allocok
    THEN [st1 EXCEPT !.list = Append(@, tk)]
    ELSE [st1 EXCEPT !.log = Append(@, <<"Out of memory while machine check handling", t>>)]

\* add_to_kill(): st = [list, tkc, log, calls]; tkc is the preallocated
\* slot, calls the kmalloc(GFP_ATOMIC) calls made (process, result).
add_to_kill(st, t, vma, allocok) ==
    LET tk == [tsk |-> t, addr_valid |-> ~vma.efault]
        st1 == [st EXCEPT !.calls = Append(@, [tsk |-> t, ok |-> allocok])] IN
    IF st.tkc
    THEN [st EXCEPT !.list = Append(@, tk), !.tkc = FALSE]
    ELSE IF allocok
    THEN [st1 EXCEPT !.list = Append(@, tk)]
    ELSE [st1 EXCEPT !.log = Append(@, <<"Out of memory while machine check handling", t>>)]

\* The inner loop (lines 302-308, 343-354) for task t from vma i on: in
\* collect_procs_anon a vma that does not map the page is passed over; a
\* vma of the task's address space gives one add_to_kill().  An allocation
\* of add_to_kill() gets the next answer of pt.allocok.
RECURSIVE CollectVmas(_, _, _, _, _)
CollectVmas(st, t, pt, anon, i) ==
    IF i > Len(pt.vmas) THEN st
    ELSE LET vma == pt.vmas[i]
             st1 == IF anon /\ ~vma.mapped THEN st
                    ELSE IF vma.mm = pt.tasks[t].mm
                    THEN add_to_kill(st, t, vma, pt.allocok[Len(st.calls) + 1])
                    ELSE st
         IN  CollectVmas(st1, t, pt, anon, i + 1)

\* The body of for_each_process() for task t; anon selects the test of
\* collect_procs_anon (page_mapped_in_vma) over that of collect_procs_file.
CollectTask(st, t, pt, anon) ==
    IF ~task_early_kill(pt.tasks[t], pt.sysctl) THEN st
    ELSE CollectVmas(st, t, pt, anon, 1)

RECURSIVE CollectWalk(_, _, _, _)
CollectWalk(st, todo, pt, anon) ==
    IF todo = {} THEN st
    ELSE LET t == CHOOSE x \in todo : \A y \in todo : x <= y IN
         CollectWalk(CollectTask(st, t, pt, anon), todo \ {t}, pt, anon)

\* page_lock_anon_vma() returns NULL for a page that is not mapped any more.
collect_procs_anon(pg, st, pt) ==
    IF ~page_mapped(pg) THEN st ELSE CollectWalk(st, Tasks, pt, TRUE)

collect_procs_file(pg, st, pt) == CollectWalk(st, Tasks, pt, FALSE)

collect_procs(pg, pt) ==
    LET st0 == [list |-> <<>>, tkc |-> TRUE, log |-> <<>>, calls |-> <<>>] IN
    IF pg.mapping = NoMapping THEN st0.list
    ELSE IF ~pt.prealloc THEN st0.list
    ELSE IF PageAnon(pg) THEN collect_procs_anon(pg, st0, pt).list
    ELSE collect_procs_file(pg, st0, pt).list

(***************************************************************************)
(* collect_procs() step by step, for the claims about its slot, its walk   *)
(* and its locks.  col.pt is the process table (NTasks processes and the   *)
(* page's chain of vmas, fixed while the locks are held), col.prealloc the *)
(* result of kmalloc(GFP_NOIO) ("none" before the call), col.st the list,  *)
(* the slot, the log and the kmalloc(GFP_ATOMIC) calls as add_to_kill()    *)
(* keeps them, col.next the process the walk comes to next, col.locks the  *)
(* locks held, col.ev the lock operations made.                            *)
(***************************************************************************)
ColTasks == 1..NTasks

ColEmpty == [list |-> <<>>, tkc |-> FALSE, log |-> <<>>, calls |-> <<>>]

ColOff ==
    [pc |-> "off", pt |-> <<>>, prealloc |-> "none", st |-> ColEmpty, next |-> 0,
     locks |-> {}, ev |-> <<>>]

\* The rows of the table the walk is run on.
ColEntries ==
    {[hasmm |-> FALSE, pflags |-> {}]}
    \cup {[hasmm |-> TRUE, pflags |-> f] :
            f \in {{}, {"PF_MCE_PROCESS"}, {"PF_MCE_PROCESS", "PF_MCE_EARLY"}}}

\* The vmas of the chains the walk is run on: of any process, mapping the
\* page at an address, covering it without mapping it, or mapping it with
\* no address found (-EFAULT).
ColVmas ==
    {[mm |-> m, mapped |-> v[1], efault |-> v[2]] :
        m \in ColTasks, v \in {<<TRUE, FALSE>>, <<FALSE, FALSE>>, <<TRUE, TRUE>>}}

\* The tables of the processes in ColTasks with chains of at most n vmas.
ColTables(n) ==
    {[tasks |-> [t \in ColTasks |->
                    [mm |-> IF e[t].hasmm THEN t ELSE 0, pflags |-> e[t].pflags]],
      vmas |-> ch,
      sysctl |-> sc] :
        e \in [ColTasks -> ColEntries], ch \in VmaChains(ColVmas, n),
        sc \in BOOLEAN}

\* The table as CollectTask() reads it, with the answers ao of the
\* allocations add_to_kill() makes for the process at hand.
ColPt(ao) ==
    [tasks |-> col.pt.tasks, vmas |-> col.pt.vmas, sysctl |-> col.pt.sysctl,
     prealloc |-> TRUE, allocok |-> ao]

\* collect_procs(), lines 370-375: if (!page->mapping) return;
\* tk = kmalloc(..., GFP_NOIO); if (!tk) return.
ColPrealloc ==
    /\ col.pc = "start"
    /\ IF page[HP].mapping = NoMapping
       THEN col' = [col EXCEPT !.pc = "done"]
       ELSE \E ok \in BOOLEAN :
               col' = IF ok
                      THEN [col EXCEPT !.pc = "read_lock", !.prealloc = "ok",
                                       !.st.tkc = TRUE]
                      ELSE [col EXCEPT !.pc = "done", !.prealloc = "failed"]
    /\ UNCHANGED <<page, pavars, offvars, hum_pc, pte_dirty, hum_kill, hum_ttu,
                   tokill, hum_i, hum_ret, hum_doit, sent, hum_ev>>

\* Lines 293 and 335: read_lock(&tasklist_lock).
ColReadLock ==
    /\ col.pc = "read_lock"
    /\ col' = [col EXCEPT !.pc = "rmap_lock",
                          !.locks = @ \cup {"tasklist_lock"},
                          !.ev = Append(@, <<"lock", "tasklist_lock">>)]
    /\ UNCHANGED <<page, pavars, offvars, hum_pc, pte_dirty, hum_kill, hum_ttu,
                   tokill, hum_i, hum_ret, hum_doit, sent, hum_ev>>

\* Lines 294-296: av = page_lock_anon_vma(page); if (av == NULL) goto out.
\* Line 336: spin_lock(&mapping->i_mmap_lock).
ColRmapLock ==
    /\ col.pc = "rmap_lock"
    /\ IF PageAnon(page[HP])
       THEN IF ~page_mapped(page[HP])
            THEN col' = [col EXCEPT !.pc = "read_unlock"]
            ELSE col' = [col EXCEPT !.pc = "walk", !.next = 1,
                                    !.locks = @ \cup {"anon_vma"},
                                    !.ev = Append(@, <<"lock", "anon_vma">>)]
       ELSE col' = [col EXCEPT !.pc = "walk", !.next = 1,
                               !.locks = @ \cup {"i_mmap_lock"},
                               !.ev = Append(@, <<"lock", "i_mmap_lock">>)]
    /\ UNCHANGED <<page, pavars, offvars, hum_pc, pte_dirty, hum_kill, hum_ttu,
                   tokill, hum_i, hum_ret, hum_doit, sent, hum_ev>>

\* One pass of for_each_process(): the body for process col.next, the
\* inner loop over the vmas included; ao[k] is what the k-th
\* kmalloc(GFP_ATOMIC) of the walk gives when add_to_kill() calls it.
ColWalk ==
    /\ col.pc = "walk"
    /\ col.next <= NTasks
    /\ \E ao \in [1..ColMaxVmas -> BOOLEAN] :
          LET t == col.next IN
          col' = [col EXCEPT
                    !.st = CollectTask(col.st, t, ColPt(ao), PageAnon(page[HP])),
                    !.next = t + 1]
    /\ UNCHANGED <<page, pavars, offvars, hum_pc, pte_dirty, hum_kill, hum_ttu,
                   tokill, hum_i, hum_ret, hum_doit, sent, hum_ev>>

\* Lines 310 and 356: page_unlock_anon_vma(av) / spin_unlock(&mapping->
\* i_mmap_lock) after the last process.
ColRmapUnlock ==
    /\ col.pc = "walk"
    /\ col.next > NTasks
    /\ LET l == IF PageAnon(page[HP]) THEN "anon_vma" ELSE "i_mmap_lock" IN
       col' = [col EXCEPT !.pc = "read_unlock",
                          !.locks = @ \ {l},
                          !.ev = Append(@, <<"unlock", l>>)]
    /\ UNCHANGED <<page, pavars, offvars, hum_pc, pte_dirty, hum_kill, hum_ttu,
                   tokill, hum_i, hum_ret, hum_doit, sent, hum_ev>>

\* Lines 312 and 357: read_unlock(&tasklist_lock).
ColReadUnlock ==
    /\ col.pc = "read_unlock"
    /\ col' = [col EXCEPT !.pc = "free",
                          !.locks = @ \ {"tasklist_lock"},
                          !.ev = Append(@, <<"unlock", "tasklist_lock">>)]
    /\ UNCHANGED <<page, pavars, offvars, hum_pc, pte_dirty, hum_kill, hum_ttu,
                   tokill, hum_i, hum_ret, hum_doit, sent, hum_ev>>

\* Line 380: kfree(tk), the slot if it was not used.
ColFree ==
    /\ col.pc = "free"
    /\ col' = [col EXCEPT !.pc = "done", !.st.tkc = FALSE]
    /\ UNCHANGED <<page, pavars, offvars, hum_pc, pte_dirty, hum_kill, hum_ttu,
                   tokill, hum_i, hum_ret, hum_doit, sent, hum_ev>>

(***************************************************************************)
(* kill_procs_ao(): per entry of the list, nothing when doit is 0, the     *)
(* forced SIGKILL when fail is set or the address is not valid, the        *)
(* advisory SIGBUS (kill_proc_ao) otherwise.  The list is freed.           *)
(***************************************************************************)
\* The decision without the `fail' test.
KillSignal_nofail(tk, doit, fail) ==
    IF doit
    THEN IF ~tk.addr_valid THEN "SIGKILL" ELSE "SIGBUS"
    ELSE "none"

\* The decision without the addr_valid test.
KillSignal_noaddr(tk, doit, fail) ==
    IF doit
    THEN IF fail THEN "SIGKILL" ELSE "SIGBUS"
    ELSE "none"

KillSignal(tk, doit, fail) ==
    IF doit
    THEN IF fail \/ ~tk.addr_valid THEN "SIGKILL" ELSE "SIGBUS"
    ELSE "none"

kill_procs_ao(list, doit, fail) ==
    [k \in 1..Len(list) |->
        [tsk |-> list[k].tsk, addr_valid |-> list[k].addr_valid,
         sig |-> KillSignal(list[k], doit, fail)]]

(***************************************************************************)
(* hwpoison_user_mappings(), one action per phase: the early guards, the   *)
(* dirty propagation, the collector, each try_to_unmap attempt, the kill   *)
(* decision.                                                               *)
(***************************************************************************)
N_UNMAP_TRIES == 5

TtuBase == {"TTU_UNMAP", "TTU_IGNORE_MLOCK", "TTU_IGNORE_ACCESS"}

SetHP(pg) == [page EXCEPT ![HP] = pg]

HumReturn(r) ==
    /\ hum_ret' = r
    /\ hum_pc' = "done"

\* A variant of the guards without the test of page_mapped().
HumGuards_nomapped ==
    /\ hum_pc = "start"
    /\ LET pg == page[HP] IN
       IF pg.flags \cap {"reserved", "slab"} # {}
       THEN HumReturn("SWAP_SUCCESS") /\ UNCHANGED hum_ttu
       ELSE IF PageCompound(pg) \/ PageKsm(pg)
       THEN HumReturn("SWAP_FAIL") /\ UNCHANGED hum_ttu
       ELSE /\ hum_ttu' = IF "sc" \in pg.flags
                          THEN hum_ttu \cup {"TTU_IGNORE_HWPOISON"} ELSE hum_ttu
            /\ hum_pc' = "dirtyprop"
            /\ UNCHANGED hum_ret
    /\ UNCHANGED <<page, pavars, offvars, col, pte_dirty, hum_kill, tokill, hum_i, hum_doit,
                   sent, hum_ev>>

\* A variant of the guards with the compound/KSM test in front of the
\* test of page_mapped().
HumGuards_compoundfirst ==
    /\ hum_pc = "start"
    /\ LET pg == page[HP] IN
       IF pg.flags \cap {"reserved", "slab"} # {}
       THEN HumReturn("SWAP_SUCCESS") /\ UNCHANGED hum_ttu
       ELSE IF PageCompound(pg) \/ PageKsm(pg)
       THEN HumReturn("SWAP_FAIL") /\ UNCHANGED hum_ttu
       ELSE IF ~page_mapped(pg)
       THEN HumReturn("SWAP_SUCCESS") /\ UNCHANGED hum_ttu
       ELSE /\ hum_ttu' = IF "sc" \in pg.flags
                          THEN hum_ttu \cup {"TTU_IGNORE_HWPOISON"} ELSE hum_ttu
            /\ hum_pc' = "dirtyprop"
            /\ UNCHANGED hum_ret
    /\ UNCHANGED <<page, pavars, offvars, col, pte_dirty, hum_kill, tokill, hum_i, hum_doit,
                   sent, hum_ev>>

\* Lines 752-769: reserved/slab, not mapped, compound/KSM, swap cache.
HumGuards ==
    /\ hum_pc = "start"
    /\ LET pg == page[HP] IN
       IF pg.flags \cap {"reserved", "slab"} # {}
       THEN HumReturn("SWAP_SUCCESS") /\ UNCHANGED hum_ttu
       ELSE IF ~page_mapped(pg)
       THEN HumReturn("SWAP_SUCCESS") /\ UNCHANGED hum_ttu
       ELSE IF PageCompound(pg) \/ PageKsm(pg)
       THEN HumReturn("SWAP_FAIL") /\ UNCHANGED hum_ttu
       ELSE /\ hum_ttu' = IF "sc" \in pg.flags
                          THEN hum_ttu \cup {"TTU_IGNORE_HWPOISON"} ELSE hum_ttu
            /\ hum_pc' = "dirtyprop"
            /\ UNCHANGED hum_ret
    /\ UNCHANGED <<page, pavars, offvars, col, pte_dirty, hum_kill, tokill, hum_i, hum_doit,
                   sent, hum_ev>>

\* Lines 777-788: page_mkclean() moves the dirty bit of the ptes into the
\* page; a page found clean switches the notification off.
HumDirtyProp ==
    /\ hum_pc = "dirtyprop"
    /\ LET pg == page[HP]
           mp == page_mapping(pg)
       IN  IF "dirty" \notin pg.flags /\ mp # NoMapping /\ mp.wbcap
           THEN /\ hum_ev' = Append(hum_ev, "page_mkclean")
                /\ pte_dirty' = FALSE
                /\ IF pte_dirty
                   THEN /\ page' = SetHP([pg EXCEPT !.flags = @ \cup {"dirty"}])
                        /\ UNCHANGED <<hum_kill, hum_ttu>>
                   ELSE /\ hum_kill' = FALSE
                        /\ hum_ttu' = hum_ttu \cup {"TTU_IGNORE_HWPOISON"}
                        /\ UNCHANGED page
           ELSE UNCHANGED <<page, pte_dirty, hum_kill, hum_ttu, hum_ev>>
    /\ hum_pc' = "collect"
    /\ UNCHANGED <<pavars, offvars, col, tokill, hum_i, hum_ret, hum_doit, sent>>

\* A variant in which the collector runs after the retry loop.
HumCollect_late ==
    \/ /\ hum_pc = "collect"
       /\ hum_pc' = "unmap"
       /\ UNCHANGED <<page, pavars, offvars, col, pte_dirty, hum_kill, hum_ttu, tokill,
                      hum_i, hum_ret, hum_doit, sent, hum_ev>>
    \/ /\ hum_pc = "kill"
       /\ hum_kill
       /\ \A k \in 1..Len(hum_ev) : hum_ev[k] # "collect_procs"
       /\ \E pt \in ProcessTables(MaxVmas) : tokill' = collect_procs(page[HP], pt)
       /\ hum_ev' = Append(hum_ev, "collect_procs")
       /\ UNCHANGED <<page, pavars, offvars, col, pte_dirty, hum_kill, hum_ttu, hum_i,
                      hum_ret, hum_doit, sent, hum_pc>>

\* The collector run whatever `kill' says.
HumCollect_always ==
    /\ hum_pc = "collect"
    /\ \E pt \in ProcessTables(MaxVmas) : tokill' = collect_procs(page[HP], pt)
    /\ hum_ev' = Append(hum_ev, "collect_procs")
    /\ hum_pc' = "unmap"
    /\ UNCHANGED <<page, pavars, offvars, col, pte_dirty, hum_kill, hum_ttu, hum_i, hum_ret,
                   hum_doit, sent>>

\* Lines 798-799: if (kill) collect_procs(p, &tokill).
HumCollect ==
    /\ hum_pc = "collect"
    /\ IF hum_kill
       THEN /\ \E pt \in ProcessTables(MaxVmas) : tokill' = collect_procs(page[HP], pt)
            /\ hum_ev' = Append(hum_ev, "collect_procs")
       ELSE UNCHANGED <<tokill, hum_ev>>
    /\ hum_pc' = "unmap"
    /\ UNCHANGED <<page, pavars, offvars, col, pte_dirty, hum_kill, hum_ttu, hum_i, hum_ret,
                   hum_doit, sent>>

\* A variant of the retry loop without the break on success.
HumUnmap_nobreak ==
    /\ hum_pc = "unmap"
    /\ hum_i < N_UNMAP_TRIES
    /\ \E r \in {"SWAP_SUCCESS", "SWAP_AGAIN", "SWAP_FAIL"} :
          /\ hum_ret' = r
          /\ hum_i' = hum_i + 1
          /\ hum_ev' = Append(hum_ev, "try_to_unmap")
          /\ page' = IF r = "SWAP_SUCCESS"
                     THEN SetHP([page[HP] EXCEPT !.mapcount = 0]) ELSE page
          /\ hum_pc' = IF hum_i + 1 = N_UNMAP_TRIES THEN "kill" ELSE "unmap"
    /\ UNCHANGED <<pavars, offvars, col, pte_dirty, hum_kill, hum_ttu, tokill, hum_doit, sent>>

\* Lines 805-810: one pass of the retry loop; r is what try_to_unmap
\* returns.
HumUnmap ==
    /\ hum_pc = "unmap"
    /\ hum_i < N_UNMAP_TRIES
    /\ \E r \in {"SWAP_SUCCESS", "SWAP_AGAIN", "SWAP_FAIL"} :
          /\ hum_ret' = r
          /\ hum_i' = hum_i + 1
          /\ hum_ev' = Append(hum_ev, "try_to_unmap")
          /\ page' = IF r = "SWAP_SUCCESS"
                     THEN SetHP([page[HP] EXCEPT !.mapcount = 0]) ELSE page
          /\ hum_pc' = IF r = "SWAP_SUCCESS" \/ hum_i + 1 = N_UNMAP_TRIES
                       THEN "kill" ELSE "unmap"
    /\ UNCHANGED <<pavars, offvars, col, pte_dirty, hum_kill, hum_ttu, tokill, hum_doit, sent>>

\* Lines 825-828: kill_procs_ao(&tokill, !!PageDirty(p), trapno,
\* ret != SWAP_SUCCESS, pfn); return ret.
HumKill ==
    /\ hum_pc = "kill"
    /\ LET doit == "dirty" \in page[HP].flags
           res == kill_procs_ao(tokill, doit, hum_ret # "SWAP_SUCCESS")
       IN  /\ hum_doit' = doit
           /\ sent' = res
           /\ hum_ev' = hum_ev \o [k \in 1..Len(res) |-> res[k].sig]
    /\ tokill' = <<>>
    /\ hum_pc' = "done"
    /\ UNCHANGED <<page, pavars, offvars, col, pte_dirty, hum_kill, hum_ttu, hum_i, hum_ret>>

\* Lines 742-750: the handler is called again on the page of a call that
\* has returned; the locals start from their declarations and the record of
\* the calls made starts with this one.
HumCall ==
    /\ hum_pc = "done"
    /\ hum_pc' = "start"
    /\ hum_kill' = TRUE
    /\ hum_ttu' = TtuBase
    /\ tokill' = <<>>
    /\ hum_i' = 0
    /\ hum_ret' = "none"
    /\ hum_doit' = FALSE
    /\ sent' = <<>>
    /\ hum_ev' = <<"hwpoison_user_mappings">>
    /\ UNCHANGED <<page, pavars, offvars, col, pte_dirty>>

\* "the dirty test could be racy: set_page_dirty() may not always be called
\* inside page lock": another user dirties the page while the handler runs.
EnvSetPageDirty ==
    /\ hum_pc \in {"dirtyprop", "collect", "unmap", "kill"}
    /\ "dirty" \notin page[HP].flags
    /\ page' = SetHP([page[HP] EXCEPT !.flags = @ \cup {"dirty"}])
    /\ UNCHANGED <<pavars, humvars, offvars>>

(***************************************************************************)
(* soft_offline_page__clone(), get_any_page() and unpoison_memory__clone() *)
(* as called by concurrent threads.  th[t].pc is the position of thread t; *)
(* a thread that has returned is "idle" again and keeps the returned       *)
(* value in th[t].ret.  Every action is one access to shared state (page   *)
(* flags, reference count, ledger, locks) with the local code around it.   *)
(* The books of a call: held = references taken minus references dropped   *)
(* by this call, dl = what this call added to the ledger, dp = this call   *)
(* executed SetPageHWPoison, path = how the page was retired, rgen = the   *)
(* allocation generation of the page when it was retired, did = what the   *)
(* call has done so far ("lock", "unlock", "invalidate", "isolate",        *)
(* "migrate", "clear"), raw = what the failed relocation step returned.    *)
(***************************************************************************)
BadPfn == 0     \* a frame number for which pfn_valid() fails

IdleThread ==
    [pc |-> "idle", op |-> "none", pg |-> 0, mf |-> FALSE, ret |-> 0, gk |-> 0,
     freeit |-> FALSE, held |-> 0, dl |-> 0, dp |-> FALSE, path |-> "none",
     rgen |-> 0, did |-> {}, raw |-> 0]

OffThread == [IdleThread EXCEPT !.pc = "off"]

At(t, label) == th[t].pc = label

SetPage(p, pg) == page' = [page EXCEPT ![p] = pg]

Goto(t, label) == th' = [th EXCEPT ![t].pc = label]

Return(t, r) == th' = [th EXCEPT ![t].pc = "idle", ![t].ret = r]

OffIdle == UNCHANGED <<pavars, humvars>>

OfflineRunning == \A t \in Threads : th[t].pc # "off"

\* References on the page that belong to no call in progress.
OtherRefs(p) ==
    LET Mine(t) == IF th[t].pc # "idle" /\ th[t].pg = p THEN th[t].held ELSE 0
        RECURSIVE Sum(_)
        Sum(S) == IF S = {} THEN 0
                  ELSE LET x == CHOOSE y \in S : TRUE IN Mine(x) + Sum(S \ {x})
    IN  page[p].count - Sum(Threads)

\* soft_offline_page__clone(page, flags): entry.  With MF_COUNT_INCREASED
\* the caller has raised the reference count for the call.
SoftOfflineCall(t, p, mf) ==
    /\ At(t, "idle")
    /\ ncalls < MaxCalls
    /\ ncalls' = ncalls + 1
    /\ IF mf
       THEN /\ page[p].count > 0
            /\ SetPage(p, [page[p] EXCEPT !.count = @ + 1])
            /\ th' = [th EXCEPT ![t] = [IdleThread EXCEPT
                        !.pc = "gap_entry", !.op = "soft_offline", !.pg = p,
                        !.mf = TRUE, !.gk = 1, !.held = 1]]
       ELSE /\ UNCHANGED page
            /\ th' = [th EXCEPT ![t] = [IdleThread EXCEPT
                        !.pc = "gap_entry", !.op = "soft_offline", !.pg = p,
                        !.gk = 1]]
    /\ UNCHANGED <<mce_bad_pages, sleep_lock, isolated, gen>>
    /\ OffIdle

\* get_any_page(): if (flags & MF_COUNT_INCREASED) return 1; the caller
\* goes on with ret = 1 (line 968).
GapEntry(t) ==
    /\ At(t, "gap_entry")
    /\ IF th[t].mf
       THEN th' = [th EXCEPT ![t].pc = "so_chk1", ![t].ret = 1]
       ELSE Goto(t, "gap_lock")
    /\ UNCHANGED <<page, mce_bad_pages, sleep_lock, isolated, gen, ncalls>>
    /\ OffIdle

\* get_any_page(): lock_system_sleep()
GapLock(t) ==
    /\ At(t, "gap_lock")
    /\ sleep_lock = 0
    /\ sleep_lock' = t
    /\ Goto(t, "gap_isolate")
    /\ UNCHANGED <<page, mce_bad_pages, isolated, gen, ncalls>>
    /\ OffIdle

\* get_any_page(): set_migratetype_isolate(p)
GapIsolate(t) ==
    /\ At(t, "gap_isolate")
    /\ isolated' = [isolated EXCEPT ![th[t].pg] = TRUE]
    /\ Goto(t, "gap_probe")
    /\ UNCHANGED <<page, mce_bad_pages, sleep_lock, gen, ncalls>>
    /\ OffIdle

\* get_any_page(), line 921: if (!get_page_unless_zero(compound_head(p)));
\* with the reference taken ret is 1 (line 934).
GapGet(t) ==
    /\ At(t, "gap_probe")
    /\ LET p == th[t].pg
           g == get_page_unless_zero(page[p])
       IN  IF g.ok
           THEN /\ SetPage(p, g.page)
                /\ th' = [th EXCEPT ![t].pc = "gap_unset", ![t].ret = 1,
                                    ![t].held = @ + 1]
           ELSE /\ UNCHANGED page
                /\ Goto(t, "gap_buddy")
    /\ UNCHANGED <<mce_bad_pages, sleep_lock, isolated, gen, ncalls>>
    /\ OffIdle

\* get_any_page(), line 922: if (is_free_buddy_page__clone(p)), the read
\* made under zone->lock (lines 79-86); else ret = -EIO (line 930).
GapBuddy(t) ==
    /\ At(t, "gap_buddy")
    /\ IF is_free_buddy_page(page[th[t].pg])
       THEN Goto(t, "gap_set")
       ELSE th' = [th EXCEPT ![t].pc = "gap_unset", ![t].ret = -EIO]
    /\ UNCHANGED <<page, mce_bad_pages, sleep_lock, isolated, gen, ncalls>>
    /\ OffIdle

\* get_any_page(), lines 925-926: SetPageHWPoison(p); ret = 0.
GapSetPoison(t) ==
    /\ At(t, "gap_set")
    /\ SetPage(th[t].pg, [page[th[t].pg] EXCEPT !.flags = @ \cup {"hwpoison"}])
    /\ th' = [th EXCEPT ![t].pc = "gap_unset", ![t].ret = 0,
                        ![t].dp = TRUE, ![t].path = "free"]
    /\ UNCHANGED <<mce_bad_pages, sleep_lock, isolated, gen, ncalls>>
    /\ OffIdle

\* A variant that leaves the isolation in force on the error path.
GapUnset_skiperr(t) ==
    /\ At(t, "gap_unset")
    /\ isolated' = IF th[t].ret < 0 THEN isolated
                   ELSE [isolated EXCEPT ![th[t].pg] = FALSE]
    /\ Goto(t, "gap_unlock")
    /\ UNCHANGED <<page, mce_bad_pages, sleep_lock, gen, ncalls>>
    /\ OffIdle

\* get_any_page(): unset_migratetype_isolate(p)
GapUnset(t) ==
    /\ At(t, "gap_unset")
    /\ isolated' = [isolated EXCEPT ![th[t].pg] = FALSE]
    /\ Goto(t, "gap_unlock")
    /\ UNCHANGED <<page, mce_bad_pages, sleep_lock, gen, ncalls>>
    /\ OffIdle

\* A variant of the caller's tests of ret in which a free page goes on to
\* the page cache handling.
GapUnlock_freechk(t) ==
    /\ At(t, "gap_unlock")
    /\ sleep_lock' = 0
    /\ IF th[t].ret < 0 THEN Return(t, th[t].ret)
       ELSE Goto(t, "so_chk2")
    /\ UNCHANGED <<page, mce_bad_pages, isolated, gen, ncalls>>
    /\ OffIdle

\* A variant of the caller's tests of ret in which an error of
\* get_any_page() goes to done.
GapUnlock_errdone(t) ==
    /\ At(t, "gap_unlock")
    /\ sleep_lock' = 0
    /\ IF th[t].ret <= 0 THEN Goto(t, "done_add")
       ELSE IF th[t].gk = 1 THEN Goto(t, "so_chk1")
       ELSE Goto(t, "so_chk2")
    /\ UNCHANGED <<page, mce_bad_pages, isolated, gen, ncalls>>
    /\ OffIdle

\* get_any_page(): unlock_system_sleep(); return ret, and the caller's
\* tests of ret (lines 969-972 and 988-991).
GapUnlock(t) ==
    /\ At(t, "gap_unlock")
    /\ sleep_lock' = 0
    /\ IF th[t].ret < 0 THEN Return(t, th[t].ret)
       ELSE IF th[t].ret = 0 THEN Goto(t, "done_add")
       ELSE IF th[t].gk = 1 THEN Goto(t, "so_chk1")
       ELSE Goto(t, "so_chk2")
    /\ UNCHANGED <<page, mce_bad_pages, isolated, gen, ncalls>>
    /\ OffIdle

\* Line 977: if (!PageLRU(page)), the first test of PG_lru.
SoCheckLRU1(t) ==
    /\ At(t, "so_chk1")
    /\ IF ~PageLRU(page[th[t].pg])
       THEN Goto(t, "so_put1")
       ELSE Goto(t, "so_chk2")
    /\ UNCHANGED <<page, mce_bad_pages, sleep_lock, isolated, gen, ncalls>>
    /\ OffIdle

\* Line 981: put_page(page) of the page that was off the LRU at line 977.
SoPut1(t) ==
    /\ At(t, "so_put1")
    /\ SetPage(th[t].pg, put_page(page[th[t].pg]))
    /\ th' = [th EXCEPT ![t].pc = "so_shake", ![t].held = @ - 1]
    /\ UNCHANGED <<mce_bad_pages, sleep_lock, isolated, gen, ncalls>>
    /\ OffIdle

\* lru_add_drain_all(): a page that waits in a pagevec is put on the LRU
\* (tolru: the page is in a pagevec).
lru_add_drain_all(pg, tolru) ==
    IF tolru /\ pg.count > 0 /\ ~PageLRU(pg) /\ pg.mapping # NoMapping
    THEN [pg EXCEPT !.flags = @ \cup {"lru"}] ELSE pg

\* drain_all_pages(): a page of the per-cpu free lists moves into the
\* buddy lists.
drain_all_pages(pg) ==
    IF ~PageLRU(pg) /\ pg.count = 0 /\ ~PageHWPoison(pg)
    THEN [pg EXCEPT !.flags = @ \cup {"buddy"}] ELSE pg

\* shrink_slab(): the slab cache may drop its reference on a slab page
\* (shrunk).
shrink_slab(pg, shrunk) ==
    IF shrunk /\ "slab" \in pg.flags /\ pg.count > 0 THEN put_page(pg) ELSE pg

\* shake_page__clone() returns: get_any_page(page, pfn, 0) follows (line
\* 987); with flags 0 the call goes on to lock_system_sleep().
ShakeReturn(t) == th' = [th EXCEPT ![t].pc = "gap_lock", ![t].gk = 2]

\* shake_page__clone(p, 1), line 131: if (!PageSlab(p)).
SoShake(t) ==
    /\ At(t, "so_shake")
    /\ IF "slab" \notin page[th[t].pg].flags
       THEN Goto(t, "shake_lru_drain")
       ELSE Goto(t, "shake_shrink")
    /\ UNCHANGED <<page, mce_bad_pages, sleep_lock, isolated, gen, ncalls>>
    /\ OffIdle

\* Line 132: lru_add_drain_all().
ShakeLruAddDrain(t) ==
    /\ At(t, "shake_lru_drain")
    /\ \E tolru \in BOOLEAN :
          SetPage(th[t].pg, lru_add_drain_all(page[th[t].pg], tolru))
    /\ Goto(t, "shake_lru1")
    /\ UNCHANGED <<mce_bad_pages, sleep_lock, isolated, gen, ncalls>>
    /\ OffIdle

\* Lines 133-134: if (PageLRU(p)) return.
ShakeCheckLRU1(t) ==
    /\ At(t, "shake_lru1")
    /\ IF PageLRU(page[th[t].pg])
       THEN ShakeReturn(t)
       ELSE Goto(t, "shake_drain")
    /\ UNCHANGED <<page, mce_bad_pages, sleep_lock, isolated, gen, ncalls>>
    /\ OffIdle

\* Line 135: drain_all_pages().
ShakeDrainPages(t) ==
    /\ At(t, "shake_drain")
    /\ SetPage(th[t].pg, drain_all_pages(page[th[t].pg]))
    /\ Goto(t, "shake_lru2")
    /\ UNCHANGED <<mce_bad_pages, sleep_lock, isolated, gen, ncalls>>
    /\ OffIdle

\* Line 136, left operand: if (PageLRU(p) || ...) return.
ShakeCheckLRU2(t) ==
    /\ At(t, "shake_lru2")
    /\ IF PageLRU(page[th[t].pg])
       THEN ShakeReturn(t)
       ELSE Goto(t, "shake_buddy")
    /\ UNCHANGED <<page, mce_bad_pages, sleep_lock, isolated, gen, ncalls>>
    /\ OffIdle

\* Line 136, right operand: is_free_buddy_page__clone(p), read under
\* zone->lock; the page that is neither goes on to shrink_slab().
ShakeCheckBuddy(t) ==
    /\ At(t, "shake_buddy")
    /\ IF is_free_buddy_page(page[th[t].pg])
       THEN ShakeReturn(t)
       ELSE Goto(t, "shake_shrink")
    /\ UNCHANGED <<page, mce_bad_pages, sleep_lock, isolated, gen, ncalls>>
    /\ OffIdle

\* Line 147 (access is 1): nr = shrink_slab(1000, GFP_KERNEL, 1000).
ShakeShrinkSlab(t) ==
    /\ At(t, "shake_shrink")
    /\ \E shrunk \in BOOLEAN :
          /\ shrunk => OtherRefs(th[t].pg) > 0
          /\ SetPage(th[t].pg, shrink_slab(page[th[t].pg], shrunk))
    /\ Goto(t, "shake_count")
    /\ UNCHANGED <<mce_bad_pages, sleep_lock, isolated, gen, ncalls>>
    /\ OffIdle

\* Lines 148-150: if (page_count(p) == 0) break; while (nr > 10); more is
\* nr > 10.
ShakeCount(t) ==
    /\ At(t, "shake_count")
    /\ IF page[th[t].pg].count = 0
       THEN ShakeReturn(t)
       ELSE \E more \in BOOLEAN :
               IF more THEN Goto(t, "shake_shrink") ELSE ShakeReturn(t)
    /\ UNCHANGED <<page, mce_bad_pages, sleep_lock, isolated, gen, ncalls>>
    /\ OffIdle

\* Lines 993-997: the second test of PageLRU; return -EIO.
SoCheckLRU2(t) ==
    /\ At(t, "so_chk2")
    /\ IF ~PageLRU(page[th[t].pg])
       THEN Return(t, -EIO)
       ELSE Goto(t, "so_lock")
    /\ UNCHANGED <<page, mce_bad_pages, sleep_lock, isolated, gen, ncalls>>
    /\ OffIdle

\* lock_page(): blocks while PG_locked is set.
lock_page(t, next) ==
    /\ "locked" \notin page[th[t].pg].flags
    /\ SetPage(th[t].pg, [page[th[t].pg] EXCEPT !.flags = @ \cup {"locked"}])
    /\ th' = [th EXCEPT ![t].pc = next, ![t].did = @ \cup {"lock"}]

unlock_page(pg) == [pg EXCEPT !.flags = @ \ {"locked"}]

SoLock(t) ==
    /\ At(t, "so_lock")
    /\ lock_page(t, "so_wb")
    /\ UNCHANGED <<mce_bad_pages, sleep_lock, isolated, gen, ncalls>>
    /\ OffIdle

\* Line 1000: wait_on_page_writeback(page).
SoWaitWriteback(t) ==
    /\ At(t, "so_wb")
    /\ "writeback" \notin page[th[t].pg].flags
    /\ Goto(t, "so_poisoned")
    /\ UNCHANGED <<page, mce_bad_pages, sleep_lock, isolated, gen, ncalls>>
    /\ OffIdle

\* Line 1005: if (PageHWPoison(page)).
SoCheckPoison(t) ==
    /\ At(t, "so_poisoned")
    /\ IF PageHWPoison(page[th[t].pg])
       THEN th' = [th EXCEPT ![t].pc = "so_busy_unlock", ![t].path = "busy"]
       ELSE Goto(t, "so_inval")
    /\ UNCHANGED <<page, mce_bad_pages, sleep_lock, isolated, gen, ncalls>>
    /\ OffIdle

\* Line 1006: unlock_page(page) of the already-poisoned exit.
SoBusyUnlock(t) ==
    /\ At(t, "so_busy_unlock")
    /\ SetPage(th[t].pg, unlock_page(page[th[t].pg]))
    /\ th' = [th EXCEPT ![t].pc = "so_busy_put", ![t].did = @ \cup {"unlock"}]
    /\ UNCHANGED <<mce_bad_pages, sleep_lock, isolated, gen, ncalls>>
    /\ OffIdle

\* A variant of the already-poisoned exit that keeps the reference.
SoBusyPut_noput(t) ==
    /\ At(t, "so_busy_put")
    /\ th' = [th EXCEPT ![t].pc = "idle", ![t].ret = -EBUSY]
    /\ UNCHANGED <<page, mce_bad_pages, sleep_lock, isolated, gen, ncalls>>
    /\ OffIdle

\* Lines 1007-1009: put_page(page); return -EBUSY.
SoBusyPut(t) ==
    /\ At(t, "so_busy_put")
    /\ SetPage(th[t].pg, put_page(page[th[t].pg]))
    /\ th' = [th EXCEPT ![t].pc = "idle", ![t].ret = -EBUSY, ![t].held = @ - 1]
    /\ UNCHANGED <<mce_bad_pages, sleep_lock, isolated, gen, ncalls>>
    /\ OffIdle

\* Line 1016: ret = invalidate_inode_page(page).
SoInvalidate(t) ==
    /\ At(t, "so_inval")
    /\ \E relok \in BOOLEAN :
          LET inv == invalidate_inode_page(page[th[t].pg], relok) IN
          /\ SetPage(th[t].pg, inv.page)
          /\ th' = [th EXCEPT ![t].pc = "so_unlock", ![t].ret = inv.ret,
                              ![t].did = @ \cup {"invalidate"}]
    /\ UNCHANGED <<mce_bad_pages, sleep_lock, isolated, gen, ncalls>>
    /\ OffIdle

\* Line 1017: unlock_page(page).
SoUnlock(t) ==
    /\ At(t, "so_unlock")
    /\ SetPage(th[t].pg, unlock_page(page[th[t].pg]))
    /\ th' = [th EXCEPT ![t].pc = "so_put2", ![t].did = @ \cup {"unlock"}]
    /\ UNCHANGED <<mce_bad_pages, sleep_lock, isolated, gen, ncalls>>
    /\ OffIdle

\* Lines 1026-1031: put_page(page); if (ret == 1) { ret = 0; goto done; }
SoPut2(t) ==
    /\ At(t, "so_put2")
    /\ SetPage(th[t].pg, put_page(page[th[t].pg]))
    /\ IF th[t].ret = 1
       THEN th' = [th EXCEPT ![t].pc = "done_add", ![t].ret = 0,
                             ![t].held = @ - 1, ![t].path = "invalidate",
                             ![t].rgen = gen[th[t].pg]]
       ELSE th' = [th EXCEPT ![t].pc = "so_isolate", ![t].held = @ - 1]
    /\ UNCHANGED <<mce_bad_pages, sleep_lock, isolated, gen, ncalls>>
    /\ OffIdle

\* Lines 1038-1039, 1050-1055: ret = isolate_lru_page(page); a failure is
\* returned as it is.
SoIsolate(t) ==
    /\ At(t, "so_isolate")
    /\ LET iso == isolate_lru_page(page[th[t].pg]) IN
       IF iso.ret = 0
       THEN /\ SetPage(th[t].pg, iso.page)
            /\ th' = [th EXCEPT ![t].pc = "so_migrate", ![t].ret = 0,
                                ![t].held = @ + 1,
                                ![t].did = @ \cup {"isolate"}]
       ELSE /\ UNCHANGED page
            /\ th' = [th EXCEPT ![t].pc = "idle", ![t].ret = iso.ret,
                                ![t].did = @ \cup {"isolate"},
                                ![t].path = "isofail", ![t].raw = iso.ret]
    /\ UNCHANGED <<mce_bad_pages, sleep_lock, isolated, gen, ncalls>>
    /\ OffIdle

\* migrate_pages() on the one isolated page: r = 0 moves the content to
\* the new page and releases the old one to the allocator (only a page
\* without references beside its mapping's and the isolation's can be
\* moved); r > 0 is the number of pages not moved, r < 0 an error; pages
\* not moved are put back on the LRU.
migrate_pages(pg, r) ==
    IF r = 0
    THEN free_page(pg)
    ELSE put_page([pg EXCEPT !.flags = @ \cup {"lru"}])

\* A variant that returns what migrate_pages() returned.
SoMigrate_rawret(t) ==
    /\ At(t, "so_migrate")
    /\ \E r \in {0, 1, -ENOMEM} :
          /\ r = 0 => /\ page[th[t].pg].count = th[t].held + OtherRefs(th[t].pg)
                      /\ OtherRefs(th[t].pg) <= 1
          /\ SetPage(th[t].pg, migrate_pages(page[th[t].pg], r))
          /\ IF r = 0
             THEN th' = [th EXCEPT ![t].pc = "done_add", ![t].ret = 0,
                                   ![t].held = @ - 1, ![t].path = "migrate",
                                   ![t].rgen = gen[th[t].pg],
                                   ![t].did = @ \cup {"migrate"}]
             ELSE th' = [th EXCEPT ![t].pc = "idle",
                                   ![t].ret = r,
                                   ![t].held = @ - 1,
                                   ![t].did = @ \cup {"migrate"},
                                   ![t].path = "migfail", ![t].raw = r]
    /\ UNCHANGED <<mce_bad_pages, sleep_lock, isolated, gen, ncalls>>
    /\ OffIdle

\* Lines 1043-1055: ret = migrate_pages(...); if (ret > 0) ret = -EIO;
\* if (ret) return ret.
SoMigrate(t) ==
    /\ At(t, "so_migrate")
    /\ \E r \in {0, 1, -ENOMEM} :
          /\ r = 0 => /\ page[th[t].pg].count = th[t].held + OtherRefs(th[t].pg)
                      /\ OtherRefs(th[t].pg) <= 1
          /\ SetPage(th[t].pg, migrate_pages(page[th[t].pg], r))
          /\ IF r = 0
             THEN th' = [th EXCEPT ![t].pc = "done_add", ![t].ret = 0,
                                   ![t].held = @ - 1, ![t].path = "migrate",
                                   ![t].rgen = gen[th[t].pg],
                                   ![t].did = @ \cup {"migrate"}]
             ELSE th' = [th EXCEPT ![t].pc = "idle",
                                   ![t].ret = IF r > 0 THEN -EIO ELSE r,
                                   ![t].held = @ - 1,
                                   ![t].did = @ \cup {"migrate"},
                                   ![t].path = "migfail", ![t].raw = r]
    /\ UNCHANGED <<mce_bad_pages, sleep_lock, isolated, gen, ncalls>>
    /\ OffIdle

\* Line 1058: atomic_long_add(1, &mce_bad_pages).
DoneAdd(t) ==
    /\ At(t, "done_add")
    /\ mce_bad_pages' = mce_bad_pages + 1
    /\ th' = [th EXCEPT ![t].pc = "done_set", ![t].dl = @ + 1]
    /\ UNCHANGED <<page, sleep_lock, isolated, gen, ncalls>>
    /\ OffIdle

\* Lines 1059-1061: SetPageHWPoison(page); return ret.
DoneSet(t) ==
    /\ At(t, "done_set")
    /\ SetPage(th[t].pg, [page[th[t].pg] EXCEPT !.flags = @ \cup {"hwpoison"}])
    /\ th' = [th EXCEPT ![t].pc = "idle", ![t].dp = TRUE]
    /\ UNCHANGED <<mce_bad_pages, sleep_lock, isolated, gen, ncalls>>
    /\ OffIdle

\* A variant of the entry of unpoison without the test of PageHWPoison.
UnpoisonCall_notest(t, pfn) ==
    /\ At(t, "idle")
    /\ ncalls < MaxCalls
    /\ ncalls' = ncalls + 1
    /\ LET call == [IdleThread EXCEPT !.op = "unpoison"] IN
       IF pfn \notin Pages
       THEN th' = [th EXCEPT ![t] = [call EXCEPT !.ret = -ENXIO,
                                                 !.path = "badpfn"]]
       ELSE th' = [th EXCEPT ![t] = [call EXCEPT !.pg = pfn, !.pc = "up_get"]]
    /\ UNCHANGED <<page, mce_bad_pages, sleep_lock, isolated, gen>>
    /\ OffIdle

\* unpoison_memory__clone(pfn): lines 851-860.
UnpoisonCall(t, pfn) ==
    /\ At(t, "idle")
    /\ ncalls < MaxCalls
    /\ ncalls' = ncalls + 1
    /\ LET call == [IdleThread EXCEPT !.op = "unpoison"] IN
       IF pfn \notin Pages
       THEN th' = [th EXCEPT ![t] = [call EXCEPT !.ret = -ENXIO,
                                                 !.path = "badpfn"]]
       ELSE IF ~PageHWPoison(page[pfn])
       THEN th' = [th EXCEPT ![t] = [call EXCEPT !.pg = pfn, !.ret = 0,
                                                 !.path = "notpoisoned"]]
       ELSE th' = [th EXCEPT ![t] = [call EXCEPT !.pg = pfn, !.pc = "up_get"]]
    /\ UNCHANGED <<page, mce_bad_pages, sleep_lock, isolated, gen>>
    /\ OffIdle

\* Line 862: if (!get_page_unless_zero(page)).
UpGet(t) ==
    /\ At(t, "up_get")
    /\ LET g == get_page_unless_zero(page[th[t].pg]) IN
       IF g.ok
       THEN /\ SetPage(th[t].pg, g.page)
            /\ th' = [th EXCEPT ![t].pc = "up_lock", ![t].held = @ + 1,
                                ![t].path = "uplocked"]
       ELSE /\ UNCHANGED page
            /\ th' = [th EXCEPT ![t].pc = "up_free_clear", ![t].path = "upfree"]
    /\ UNCHANGED <<mce_bad_pages, sleep_lock, isolated, gen, ncalls>>
    /\ OffIdle

\* A variant that tells "was set" whatever the bit was.
TestClearPageHWPoison_always(pg) ==
    [page |-> [pg EXCEPT !.flags = @ \ {"hwpoison"}], was |-> TRUE]

\* TestClearPageHWPoison(): clear the bit, tell whether it was set.
TestClearPageHWPoison(pg) ==
    [page |-> [pg EXCEPT !.flags = @ \ {"hwpoison"}], was |-> PageHWPoison(pg)]

\* Line 863: TestClearPageHWPoison(p) on a page without references.
UpFreeClear(t) ==
    /\ At(t, "up_free_clear")
    /\ LET tc == TestClearPageHWPoison(page[th[t].pg]) IN
       /\ SetPage(th[t].pg, tc.page)
       /\ IF tc.was
          THEN th' = [th EXCEPT ![t].pc = "up_free_dec", ![t].did = @ \cup {"clear"}]
          ELSE Return(t, 0)
    /\ UNCHANGED <<mce_bad_pages, sleep_lock, isolated, gen, ncalls>>
    /\ OffIdle

\* Lines 864-866: atomic_long_dec(&mce_bad_pages); return 0.
UpFreeDec(t) ==
    /\ At(t, "up_free_dec")
    /\ mce_bad_pages' = mce_bad_pages - 1
    /\ th' = [th EXCEPT ![t].pc = "idle", ![t].ret = 0, ![t].dl = @ - 1]
    /\ UNCHANGED <<page, sleep_lock, isolated, gen, ncalls>>
    /\ OffIdle

\* A variant of unpoison that goes on without taking the page lock.
UpLock_nolock(t) ==
    /\ At(t, "up_lock")
    /\ Goto(t, "up_clear")
    /\ UNCHANGED <<page, mce_bad_pages, sleep_lock, isolated, gen, ncalls>>
    /\ OffIdle

\* Line 869: lock_page_nosync(page).
UpLock(t) ==
    /\ At(t, "up_lock")
    /\ lock_page(t, "up_clear")
    /\ UNCHANGED <<mce_bad_pages, sleep_lock, isolated, gen, ncalls>>
    /\ OffIdle

\* Line 876: TestClearPageHWPoison(p) under the page lock.
UpClear(t) ==
    /\ At(t, "up_clear")
    /\ LET tc == TestClearPageHWPoison(page[th[t].pg]) IN
       /\ SetPage(th[t].pg, tc.page)
       /\ IF tc.was
          THEN th' = [th EXCEPT ![t].pc = "up_dec", ![t].did = @ \cup {"clear"}]
          ELSE Goto(t, "up_unlock")
    /\ UNCHANGED <<mce_bad_pages, sleep_lock, isolated, gen, ncalls>>
    /\ OffIdle

\* Lines 878-879: atomic_long_dec(&mce_bad_pages); freeit = 1.
UpDec(t) ==
    /\ At(t, "up_dec")
    /\ mce_bad_pages' = mce_bad_pages - 1
    /\ th' = [th EXCEPT ![t].pc = "up_unlock", ![t].freeit = TRUE, ![t].dl = @ - 1]
    /\ UNCHANGED <<page, sleep_lock, isolated, gen, ncalls>>
    /\ OffIdle

\* Line 881: unlock_page(page).
UpUnlock(t) ==
    /\ At(t, "up_unlock")
    /\ SetPage(th[t].pg, unlock_page(page[th[t].pg]))
    /\ th' = [th EXCEPT ![t].pc = "up_put1", ![t].did = @ \cup {"unlock"}]
    /\ UNCHANGED <<mce_bad_pages, sleep_lock, isolated, gen, ncalls>>
    /\ OffIdle

\* Lines 883-884: put_page(page); if (freeit) ...
UpPut1(t) ==
    /\ At(t, "up_put1")
    /\ SetPage(th[t].pg, put_page(page[th[t].pg]))
    /\ IF th[t].freeit
       THEN th' = [th EXCEPT ![t].pc = "up_put2", ![t].held = @ - 1]
       ELSE th' = [th EXCEPT ![t].pc = "idle", ![t].ret = 0, ![t].held = @ - 1]
    /\ UNCHANGED <<mce_bad_pages, sleep_lock, isolated, gen, ncalls>>
    /\ OffIdle

\* Lines 885-887: put_page(page); return 0.
UpPut2(t) ==
    /\ At(t, "up_put2")
    /\ SetPage(th[t].pg, put_page(page[th[t].pg]))
    /\ th' = [th EXCEPT ![t].pc = "idle", ![t].ret = 0, ![t].held = @ - 1]
    /\ UNCHANGED <<mce_bad_pages, sleep_lock, isolated, gen, ncalls>>
    /\ OffIdle

(***************************************************************************)
(* The rest of the system, as the comments of the file describe it.        *)
(***************************************************************************)
\* The allocator hands out a page without references unless its block is
\* isolated ("Isolate the page, so that it doesn't get reallocated if it
\* was free") or the page is poisoned.
Allocatable(p) ==
    /\ page[p].count = 0
    /\ ~PageHWPoison(page[p])
    /\ ~isolated[p]

NewOwnerPages ==
    {[flags |-> {}, count |-> 1, mapping |-> NoMapping, mapcount |-> 0],
     [flags |-> {"lru"}, count |-> 1, mapping |-> FileMapping(TRUE, FALSE),
      mapcount |-> 0]}

\* "The page could get re-allocated".
EnvAlloc(p) ==
    /\ OfflineRunning
    /\ Allocatable(p)
    /\ gen[p] < MaxAlloc
    /\ gen' = [gen EXCEPT ![p] = @ + 1]
    /\ \E pg \in NewOwnerPages : SetPage(p, pg)
    /\ UNCHANGED <<mce_bad_pages, sleep_lock, isolated, ncalls, th>>
    /\ OffIdle

\* The reference the page cache holds on a page of a file; it goes with
\* the page's removal from the mapping only.
CacheRefs(pg) == IF pg.mapping.kind = "file" THEN 1 ELSE 0

\* Another holder of the page drops its reference.
EnvPut(p) ==
    /\ OfflineRunning
    /\ OtherRefs(p) > CacheRefs(page[p])
    /\ SetPage(p, put_page(page[p]))
    /\ UNCHANGED <<mce_bad_pages, sleep_lock, isolated, gen, ncalls, th>>
    /\ OffIdle

\* The write-back wait_on_page_writeback() waits for comes to its end.
EnvEndWriteback(p) ==
    /\ OfflineRunning
    /\ "writeback" \in page[p].flags
    /\ SetPage(p, [page[p] EXCEPT !.flags = @ \ {"writeback"}])
    /\ UNCHANGED <<mce_bad_pages, sleep_lock, isolated, gen, ncalls, th>>
    /\ OffIdle

(***************************************************************************)
(* The classifier on its own: a page in any state the table can see, held  *)
(* by the handler (count >= 1), is dispatched once.                        *)
(***************************************************************************)
\* The handler has set the poisoned bit of the page before it classifies
\* it and before it unmaps it.
Poisoned(pg) == [pg EXCEPT !.flags = @ \cup {"hwpoison"}]

IdlePage == [flags |-> {}, count |-> 0, mapping |-> NoMapping, mapcount |-> 0]

HumOff ==
    /\ hum_pc = "off"
    /\ pte_dirty = FALSE
    /\ hum_kill = TRUE
    /\ hum_ttu = TtuBase
    /\ tokill = <<>>
    /\ hum_i = 0
    /\ hum_ret = "none"
    /\ hum_doit = FALSE
    /\ sent = <<>>
    /\ hum_ev = <<>>
    /\ col = ColOff

OffOff ==
    /\ mce_bad_pages = 0
    /\ sleep_lock = 0
    /\ isolated = [p \in Pages |-> FALSE]
    /\ gen = [p \in Pages |-> 0]
    /\ ncalls = 0
    /\ th = [t \in Threads |-> OffThread]

PaOff ==
    /\ pa_pc = "off"
    /\ pa_rule = 0
    /\ pa_result = "none"
    /\ pa_count = 0
    /\ pa_ret = 0
    /\ pa_log = <<>>

ActionPages(ext) ==
    {[flags |-> fl \cup pv, count |-> c, mapping |-> m, mapcount |-> mc] :
        fl \in SUBSET TableFlags(ext), pv \in SUBSET {"private"},
        c \in 1..MaxCount, m \in Mappings, mc \in 0..1}

InitAction ==
    /\ cfg_ext \in BOOLEAN
    /\ \E pg \in ActionPages(cfg_ext) :
          /\ ("private" \in pg.flags => pg.mapping.kind = "file")
          /\ page = [p \in Pages |-> IF p = HP THEN Poisoned(pg) ELSE IdlePage]
    /\ pa_pc = "ready"
    /\ pa_rule = 0
    /\ pa_result = "none"
    /\ pa_count = 0
    /\ pa_ret = 0
    /\ pa_log = <<>>
    /\ HumOff
    /\ OffOff

\* The dispatch of memory_failure(): first matching rule, page_action().
PageAction ==
    /\ pa_pc = "ready"
    /\ \E ext \in [hookerr : BOOLEAN, relok : BOOLEAN] :
          LET k == FirstMatch(cfg_ext, page[HP].flags)
              r == page_action(error_states(cfg_ext)[k], page[HP], ext)
          IN  /\ page' = [page EXCEPT ![HP] = r.page]
              /\ pa_rule' = k
              /\ pa_result' = r.action_result
              /\ pa_count' = r.count
              /\ pa_ret' = r.ret
              /\ pa_log' = r.log
    /\ pa_pc' = "done"
    /\ UNCHANGED <<cfg_ext, humvars, offvars>>

NextAction == PageAction

SpecAction == InitAction /\ [][NextAction]_vars

(***************************************************************************)
(* The unmap and notify protocol on its own: a page held and locked by the *)
(* handler, in any state the guards and the dirty propagation distinguish. *)
(***************************************************************************)
UnmapPages(ext) ==
    {[flags |-> fl, count |-> 1, mapping |-> m, mapcount |-> mc] :
        fl \in SUBSET ({"reserved", "slab", "sc", "dirty"}
                        \cup (IF ext THEN {"head", "tail"} ELSE {"compound"})),
        m \in {NoMapping, AnonMapping, KsmMapping,
               FileMapping(TRUE, FALSE), FileMapping(FALSE, FALSE)},
        mc \in 0..1}

InitUnmap ==
    /\ cfg_ext \in BOOLEAN
    /\ \E pg \in UnmapPages(cfg_ext) :
          page = [p \in Pages |-> IF p = HP THEN Poisoned(pg) ELSE IdlePage]
    /\ PaOff
    /\ OffOff
    /\ hum_pc = "start"
    /\ pte_dirty \in BOOLEAN
    /\ (pte_dirty => page[HP].mapcount > 0)
    /\ hum_kill = TRUE
    /\ hum_ttu = TtuBase
    /\ tokill = <<>>
    /\ hum_i = 0
    /\ hum_ret = "none"
    /\ hum_doit = FALSE
    /\ sent = <<>>
    /\ hum_ev = <<>>
    /\ col = ColOff

NextUnmap ==
    \/ HumGuards
    \/ HumDirtyProp
    \/ HumCollect
    \/ HumUnmap
    \/ HumKill
    \/ HumCall
    \/ EnvSetPageDirty

SpecUnmap == InitUnmap /\ [][NextUnmap]_vars

\* The handler is sequential code that runs on: a pass of the retry loop
\* that can be made is made, and so is the kill decision after the loop.
SpecUnmapFair == SpecUnmap /\ WF_vars(HumUnmap) /\ WF_vars(HumKill)

(***************************************************************************)
(* The collector on its own: a page with an anonymous or a file mapping,   *)
(* mapped or not, and every table of NTasks processes that agrees with it  *)
(* (a vma maps the page only if the page is mapped).                       *)
(***************************************************************************)
CollectPages ==
    {[flags |-> {}, count |-> 1, mapping |-> m, mapcount |-> mc] :
        m \in {AnonMapping, FileMapping(TRUE, FALSE)}, mc \in 0..1}
    \cup {[flags |-> {}, count |-> 1, mapping |-> NoMapping, mapcount |-> 0]}

InitCollect ==
    /\ cfg_ext = FALSE
    /\ \E pg \in CollectPages :
          page = [p \in Pages |-> IF p = HP THEN Poisoned(pg) ELSE IdlePage]
    /\ PaOff
    /\ OffOff
    /\ hum_pc = "off"
    /\ pte_dirty = FALSE
    /\ hum_kill = TRUE
    /\ hum_ttu = TtuBase
    /\ tokill = <<>>
    /\ hum_i = 0
    /\ hum_ret = "none"
    /\ hum_doit = FALSE
    /\ sent = <<>>
    /\ hum_ev = <<>>
    /\ \E pt \in ColTables(ColMaxVmas) :
          /\ page_mapped(page[HP]) <=> \E i \in 1..Len(pt.vmas) : pt.vmas[i].mapped
          /\ page[HP].mapping = NoMapping => pt.vmas = <<>>
          /\ col = [ColOff EXCEPT !.pc = "start", !.pt = pt]

NextCollect ==
    \/ ColPrealloc
    \/ ColReadLock
    \/ ColRmapLock
    \/ ColWalk
    \/ ColRmapUnlock
    \/ ColReadUnlock
    \/ ColFree

SpecCollect == InitCollect /\ [][NextCollect]_vars

(***************************************************************************)
(* Soft offline and unpoison, called concurrently, beside the allocator.   *)
(* The pages at the start: free in the buddy lists, free on a per-cpu      *)
(* list, on the LRU (file backed clean / dirty / under write-back,         *)
(* anonymous), in use off the LRU, slab.                                   *)
(***************************************************************************)
MaxRefs == 2

OfflinePages ==
    {[flags |-> {"buddy"}, count |-> 0, mapping |-> NoMapping, mapcount |-> 0],
     [flags |-> {}, count |-> 0, mapping |-> NoMapping, mapcount |-> 0],
     [flags |-> {"slab"}, count |-> 1, mapping |-> NoMapping, mapcount |-> 0]}
    \cup {[flags |-> fl, count |-> c, mapping |-> FileMapping(TRUE, FALSE),
           mapcount |-> 0] :
            fl \in {{"lru"}, {"lru", "dirty"}, {"lru", "writeback"}, {}},
            c \in 1..MaxRefs}
    \cup {[flags |-> {"lru"}, count |-> c, mapping |-> AnonMapping, mapcount |-> 0] :
            c \in 1..MaxRefs}

InitOffline ==
    /\ cfg_ext = FALSE
    /\ page \in [Pages -> OfflinePages]
    /\ PaOff
    /\ HumOff
    /\ mce_bad_pages = 0
    /\ sleep_lock = 0
    /\ isolated = [p \in Pages |-> FALSE]
    /\ gen = [p \in Pages |-> 0]
    /\ ncalls = 0
    /\ th = [t \in Threads |-> IdleThread]

ThreadStep(t) ==
    \/ \E p \in Pages, mf \in BOOLEAN : SoftOfflineCall(t, p, mf)
    \/ GapEntry(t)
    \/ GapLock(t) \/ GapIsolate(t) \/ GapGet(t) \/ GapBuddy(t) \/ GapSetPoison(t) \/ GapUnset(t) \/ GapUnlock(t)
    \/ SoCheckLRU1(t) \/ SoPut1(t) \/ SoCheckLRU2(t)
    \/ SoShake(t) \/ ShakeLruAddDrain(t) \/ ShakeCheckLRU1(t) \/ ShakeDrainPages(t)
    \/ ShakeCheckLRU2(t) \/ ShakeCheckBuddy(t) \/ ShakeShrinkSlab(t) \/ ShakeCount(t)
    \/ SoLock(t) \/ SoWaitWriteback(t) \/ SoCheckPoison(t) \/ SoBusyUnlock(t) \/ SoBusyPut(t)
    \/ SoInvalidate(t) \/ SoUnlock(t) \/ SoPut2(t)
    \/ SoIsolate(t) \/ SoMigrate(t)
    \/ DoneAdd(t) \/ DoneSet(t)
    \/ \E pfn \in Pages \cup {BadPfn} : UnpoisonCall(t, pfn)
    \/ UpGet(t) \/ UpFreeClear(t) \/ UpFreeDec(t)
    \/ UpLock(t) \/ UpClear(t) \/ UpDec(t) \/ UpUnlock(t) \/ UpPut1(t) \/ UpPut2(t)

NextOffline ==
    \/ \E t \in Threads : ThreadStep(t)
    \/ \E p \in Pages : EnvAlloc(p) \/ EnvPut(p) \/ EnvEndWriteback(p)

SpecOffline == InitOffline /\ [][NextOffline]_vars

(***************************************************************************)
(* Claims about the classifier.                                            *)
(***************************************************************************)
DispatchedAction == error_states(cfg_ext)[pa_rule].action

\* References left on the page beside the handler's own and beside the one
\* the swap-cache-dirty action is expected to leave when it returns Delayed.
ResidualCount ==
    page[HP].count - 1
        - (IF DispatchedAction = "me_swapcache_dirty" /\ pa_result = "DELAYED"
           THEN 1 ELSE 0)

\* C7: page_action returns 0 exactly when the action returned Recovered or
\* Delayed and no reference is left beside the handler's own (and the one
\* expected residual reference of swap-cache-dirty/Delayed); otherwise it
\* returns -EBUSY.
C7_PageActionStatus ==
    pa_pc = "done" =>
        /\ pa_ret \in {0, -EBUSY}
        /\ (pa_ret = 0) <=> (pa_result \in {"RECOVERED", "DELAYED"} /\ ResidualCount = 0)

\* The action recovered the page, a reference is left, the status is failure.
C7_Witness ==
    /\ pa_pc = "done"
    /\ pa_result = "RECOVERED"
    /\ ResidualCount # 0
    /\ pa_ret = -EBUSY

\* C8: swap-cache-dirty returned Delayed and two references are left beside
\* the handler's own (page_count = 3): one is subtracted as expected, one
\* remains, "still referenced" is logged and the status is failure.
C8_SwapCacheDirtyStillReferenced ==
    (/\ pa_pc = "done"
     /\ DispatchedAction = "me_swapcache_dirty"
     /\ pa_result = "DELAYED"
     /\ page[HP].count - 1 = 2)
    => /\ pa_count = 1
       /\ pa_log[Len(pa_log)] = <<"page still referenced", 1>>
       /\ pa_ret = -EBUSY

C8_Witness ==
    /\ pa_pc = "done"
    /\ DispatchedAction = "me_swapcache_dirty"
    /\ pa_result = "DELAYED"
    /\ page[HP].count = 3
    /\ "sc" \in page[HP].flags
    /\ pa_ret = -EBUSY

(***************************************************************************)
(* Claims about the unmap and notify protocol.                             *)
(***************************************************************************)
HumDone == hum_pc = "done"

\* All N_UNMAP_TRIES attempts were made and the last one failed too.
UnmapFailed == hum_i = N_UNMAP_TRIES /\ hum_ret # "SWAP_SUCCESS"

PageDirtyAtKill == "dirty" \in page[HP].flags

\* C1 as stated: after a failed unmap every entry of the notify list got
\* SIGKILL, whatever the page's dirty flag was when kill_procs_ao ran.
C1_FailedUnmapAlwaysKills ==
    (HumDone /\ UnmapFailed) => \A k \in DOMAIN sent : sent[k].sig = "SIGKILL"

\* C1 amended: after a failed unmap every entry of the notify list got
\* SIGKILL (never SIGBUS) if the page was dirty when kill_procs_ao ran, and
\* no entry got any signal if it was not.
C1_FailedUnmapKillsIfDirty ==
    (HumDone /\ UnmapFailed) =>
        \A k \in DOMAIN sent :
            sent[k].sig = IF PageDirtyAtKill THEN "SIGKILL" ELSE "none"

\* A failed unmap of a dirty page with an entry whose address is valid.
C1_Witness ==
    /\ HumDone /\ UnmapFailed /\ PageDirtyAtKill
    /\ \E k \in DOMAIN sent : sent[k].addr_valid /\ sent[k].sig = "SIGKILL"

\* C2 as stated: an entry without a valid address always ends in SIGKILL.
C2_InvalidAddrAlwaysKills ==
    HumDone => \A k \in DOMAIN sent : ~sent[k].addr_valid => sent[k].sig = "SIGKILL"

\* C2 amended: an entry without a valid address ends in SIGKILL, whether or
\* not the unmap succeeded, if the page was dirty when kill_procs_ao ran;
\* it gets no signal if the page was not dirty.
C2_InvalidAddrKillsIfDirty ==
    HumDone =>
        \A k \in DOMAIN sent :
            ~sent[k].addr_valid =>
                sent[k].sig = IF PageDirtyAtKill THEN "SIGKILL" ELSE "none"

\* The unmap succeeded, the page is dirty, an entry has no valid address.
C2_Witness ==
    /\ HumDone /\ hum_ret = "SWAP_SUCCESS" /\ PageDirtyAtKill
    /\ \E k \in DOMAIN sent : ~sent[k].addr_valid /\ sent[k].sig = "SIGKILL"

\* C3: once the dirty propagation has found the page clean (kill = 0) the
\* collector is never run, the notify list stays empty and no signal is
\* sent, whatever try_to_unmap returns and whoever dirties the page later.
C3_CleanPageNoNotify ==
    ~hum_kill =>
        /\ tokill = <<>>
        /\ sent = <<>>
        /\ \A k \in DOMAIN hum_ev : hum_ev[k] \notin {"collect_procs", "SIGKILL", "SIGBUS"}

\* Found clean, dirtied by someone else afterwards, unmap failed, returned.
C3_Witness ==
    /\ HumDone /\ ~hum_kill /\ UnmapFailed /\ PageDirtyAtKill /\ hum_doit

(***************************************************************************)
(* The three machines side by side: a run is a run of the classifier, of   *)
(* the unmap and notify protocol, or of the concurrent soft offline and    *)
(* unpoison calls.                                                         *)
(***************************************************************************)
InitAll == InitAction \/ InitUnmap \/ InitOffline \/ InitCollect

NextAll == NextAction \/ NextUnmap \/ NextOffline \/ NextCollect

SpecAll == InitAll /\ [][NextAll]_vars

(***************************************************************************)
(* Claims about soft offline, unpoison and the ledger.                     *)
(***************************************************************************)
SoReturned(t) == th[t].op = "soft_offline" /\ th[t].pc = "idle"

AllReturned == \A t \in Threads : th[t].pc = "idle"

PoisonedPages == {p \in Pages : PageHWPoison(page[p])}

\* The call of thread t has retired its page by invalidation or migration
\* and goes on to add it to the ledger and to mark it.
Retiring(t) ==
    /\ th[t].op = "soft_offline"
    /\ th[t].path \in {"invalidate", "migrate"}
    /\ th[t].pc \in {"done_add", "done_set"}

\* C4: a page retired by the invalidate or the migrate path of soft offline
\* is never handed out again: while the call goes on to mark it poisoned,
\* the page is not allocatable and has not been given to a new owner.
C4_RetiredPageNotReallocated ==
    \A t \in Threads :
        Retiring(t) => /\ ~Allocatable(th[t].pg)
                       /\ gen[th[t].pg] = th[t].rgen

\* C5: the poisoned bit of a page goes from set to clear only in a step of
\* unpoison_memory (one of its two TestClearPageHWPoison steps); no step of
\* soft offline, get_any_page, the recovery actions, unmap and notify or the
\* rest of the system clears it.
C5_PoisonClearedOnlyByUnpoison ==
    [][\A p \in Pages :
          ("hwpoison" \in page[p].flags /\ "hwpoison" \notin page'[p].flags)
          => \E t \in Threads :
                /\ th[t].op = "unpoison"
                /\ th[t].pg = p
                /\ th[t].pc \in {"up_free_clear", "up_clear"}
                /\ th'[t].pc \in {"up_free_dec", "up_dec"}]_vars

\* An unpoison call has just cleared the bit of a page that was poisoned.
C5_Witness ==
    \E t \in Threads :
        /\ th[t].op = "unpoison"
        /\ th[t].pc \in {"up_free_dec", "up_dec"}
        /\ ~PageHWPoison(page[th[t].pg])

\* Every call so far was made by one thread, the one after the other.
OneCaller == \E t \in Threads : \A u \in Threads \ {t} : th[u].op = "none"

\* C6: after any sequence of completed soft offline and unpoison calls,
\* repeated soft offline of the same free page included, the ledger
\* mce_bad_pages equals the number of pages whose poisoned bit is set
\* (stated for calls that do not overlap: all made by one caller).
C6_LedgerCountsPoisonedPages ==
    (AllReturned /\ OneCaller) => mce_bad_pages = Cardinality(PoisonedPages)

\* C9: a soft offline call made without MF_COUNT_INCREASED that returns an
\* error has released every reference it raised on the page.
C9_ErrorExitReleasesReferences ==
    \A t \in Threads :
        (SoReturned(t) /\ ~th[t].mf /\ th[t].ret < 0) => th[t].held = 0

\* C10: a soft offline call that returns an error has not changed the ledger
\* and has not written the poisoned bit; a call that added to the ledger or
\* set the bit returns 0.
C10_ErrorLeavesLedgerAndBit ==
    \A t \in Threads :
        SoReturned(t) =>
            /\ th[t].ret < 0 => (th[t].dl = 0 /\ ~th[t].dp)
            /\ (th[t].dl # 0 \/ th[t].dp) => th[t].ret = 0

\* A call has returned -EBUSY on a page another call had poisoned: the bit
\* is as it was and the ledger counts the page once.
C10_Witness ==
    \E t \in Threads :
        /\ SoReturned(t)
        /\ th[t].ret = -EBUSY
        /\ PageHWPoison(page[th[t].pg])
        /\ mce_bad_pages = 1

(***************************************************************************)
(* More claims about the classifier.                                       *)
(***************************************************************************)
\* The step of PageAction: the page before it is page[HP], the results
\* are the primed variables.
Dispatch == pa_pc = "ready" /\ pa_pc' = "done"

\* C18: for every page with the reserved or the slab bit, whatever its
\* other bits, the first matching rule goes to me_kernel, the outcome of the
\* action is Ignored and the action changes nothing of the page (flags,
\* reference count, poisoned bit, backing object).
C18_KernelPageIgnoredUnchanged ==
    [][(Dispatch /\ page[HP].flags \cap {"reserved", "slab"} # {})
       => /\ error_states(cfg_ext)[pa_rule'].action = "me_kernel"
          /\ pa_result' = "IGNORED"
          /\ page' = page]_vars

\* A slab page that is also dirty, on the LRU and referenced was ignored.
C18_Witness ==
    /\ pa_pc = "done"
    /\ {"slab", "dirty", "lru"} \subseteq page[HP].flags
    /\ "reserved" \notin page[HP].flags
    /\ page[HP].count > 1
    /\ DispatchedAction = "me_kernel"
    /\ pa_result = "IGNORED"

CatchAll == Len(error_states(cfg_ext))

\* C19: the table is total: its last rule has the zero mask and so the
\* flag set of every page to classify has a first matching rule; a page that reaches the last rule
\* gets Failed from the action with the "Unknown page state" line, and
\* page_action returns failure for it whatever its reference count.
C19_CatchAllFails ==
    /\ error_states(cfg_ext)[CatchAll].mask = {}
    /\ error_states(cfg_ext)[CatchAll].action = "me_unknown"
    /\ pa_pc = "ready"
       => \E k \in 1..CatchAll :
             /\ RuleMatches(error_states(cfg_ext)[k], page[HP].flags)
             /\ \A j \in 1..(k - 1) :
                   ~RuleMatches(error_states(cfg_ext)[j], page[HP].flags)
             /\ k = FirstMatch(cfg_ext, page[HP].flags)
    /\ (pa_pc = "done" /\ pa_rule = CatchAll)
       => /\ pa_result = "FAILED"
          /\ pa_log[1] = <<"Unknown page state">>
          /\ pa_ret = -EBUSY

\* A page with no reference beside the handler's reached the last rule.
C19_Witness ==
    /\ pa_pc = "done"
    /\ pa_rule = CatchAll
    /\ page[HP].count = 1
    /\ pa_ret = -EBUSY

\* A dirty anonymous page on the LRU with none of the bits of the rules
\* above the LRU rules.
DirtyAnonLRU(pg) ==
    /\ {"lru", "dirty"} \subseteq pg.flags
    /\ pg.flags \cap {"reserved", "slab", "head", "tail", "compound", "sc",
                     "unevict", "mlock"} = {}
    /\ pg.mapping = AnonMapping

\* C20 as stated: for a dirty anonymous LRU page the table selects
\* me_pagecache_dirty, which sets the error marker, goes on to the clean
\* handling, finds the page anonymous and returns Recovered, and page_action
\* returns success.
C20_DirtyAnonRecoveredSuccess ==
    [][(Dispatch /\ DirtyAnonLRU(page[HP]))
       => /\ error_states(cfg_ext)[pa_rule'].action = "me_pagecache_dirty"
          /\ "error" \in page'[HP].flags
          /\ pa_result' = "RECOVERED"
          /\ pa_ret' = 0]_vars

\* C20 as the code has it: the action returns Recovered; page_action returns
\* success exactly when the page has no reference beside the handler's own
\* (page_count 1), and -EBUSY with "still referenced" otherwise.
C20_DirtyAnonRecoveredIfUnreferenced ==
    [][(Dispatch /\ DirtyAnonLRU(page[HP]))
       => /\ error_states(cfg_ext)[pa_rule'].action = "me_pagecache_dirty"
          /\ "error" \in page'[HP].flags
          /\ "lru" \notin page'[HP].flags
          /\ page'[HP].count = page[HP].count
          /\ pa_result' = "RECOVERED"
          /\ (pa_ret' = 0) <=> (page[HP].count = 1)
          /\ (pa_ret' # 0) => pa_ret' = -EBUSY]_vars

\* The dirty anonymous page was recovered and page_action returned success.
C20_Witness ==
    /\ pa_pc = "done"
    /\ DispatchedAction = "me_pagecache_dirty"
    /\ page[HP].mapping = AnonMapping
    /\ "error" \in page[HP].flags
    /\ pa_result = "RECOVERED"
    /\ page[HP].count = 1
    /\ pa_ret = 0

(***************************************************************************)
(* More claims about unmap and notify.                                     *)
(***************************************************************************)
\* The handler is at its entry with a page that has no mapping and is
\* neither reserved nor slab.
UnmappedAtEntry ==
    /\ hum_pc = "start"
    /\ ~page_mapped(page[HP])
    /\ page[HP].flags \cap {"reserved", "slab"} = {}

\* C17: on a page with no mapping (neither reserved nor slab) the handler
\* returns SWAP_SUCCESS in its first step: no collector, no try_to_unmap,
\* no signal, the page (its dirty flag included) as it was; the state a
\* repeated call starts from is the same, and so is its result.
C17_UnmappedPageReturnsAtOnce ==
    [][/\ (UnmappedAtEntry /\ hum_pc' # "start")
          => /\ hum_pc' = "done"
             /\ hum_ret' = "SWAP_SUCCESS"
             /\ page' = page
             /\ pte_dirty' = pte_dirty
             /\ tokill' = <<>>
             /\ sent' = <<>>
             /\ hum_i' = 0
             /\ hum_ev' = hum_ev
             /\ "collect_procs" \notin {hum_ev[k] : k \in 1..Len(hum_ev)}
             /\ "try_to_unmap" \notin {hum_ev[k] : k \in 1..Len(hum_ev)}
       /\ (hum_pc = "done" /\ hum_pc' = "start" /\ hum_ret = "SWAP_SUCCESS"
           /\ hum_ev \in {<<>>, <<"hwpoison_user_mappings">>})
          => (UnmappedAtEntry \/ page[HP].flags \cap {"reserved", "slab"} # {})'
      ]_vars

\* The repeated call on a page without mappings has returned.
C17_Witness ==
    /\ hum_pc = "done"
    /\ hum_ev = <<"hwpoison_user_mappings">>
    /\ hum_ret = "SWAP_SUCCESS"
    /\ ~page_mapped(page[HP])
    /\ page[HP].flags \cap {"reserved", "slab"} = {}
    /\ "dirty" \in page[HP].flags

(***************************************************************************)
(* More claims about soft offline and unpoison.                            *)
(***************************************************************************)
Relocation == {"invalidate", "isolate", "migrate"}

\* C11: a soft offline call that returns 0 through the invalidate or the
\* migrate path has marked the page poisoned, has added exactly one to the
\* ledger and still holds one reference on the page.
C11_SuccessKeepsReference ==
    \A t \in Threads :
        (SoReturned(t) /\ th[t].ret = 0 /\ th[t].path \in {"invalidate", "migrate"})
        => /\ th[t].dp
           /\ th[t].dl = 1
           /\ th[t].held = 1

\* C12: a soft offline call that finds the page without references and
\* free in the buddy lists, at once or after the shake and the second
\* get_any_page, returns 0 with the page marked poisoned and one added to
\* the ledger; it takes no page lock, no reference, and calls neither
\* invalidate nor LRU isolation nor migration.
C12_FreePagePoisonedDirectly ==
    \A t \in Threads :
        (th[t].op = "soft_offline" /\ th[t].path = "free")
        => /\ th[t].did = {}
           /\ th[t].held = 0
           /\ th[t].dp
           /\ th[t].pc \in {"gap_unset", "gap_unlock", "done_add", "done_set", "idle"}
           /\ th[t].pc = "idle" => (th[t].ret = 0 /\ th[t].dl = 1)

\* The page became free only after the shake; the call has returned.
C12_Witness ==
    \E t \in Threads :
        /\ SoReturned(t)
        /\ th[t].path = "free"
        /\ th[t].gk = 2
        /\ th[t].ret = 0
        /\ PageHWPoison(page[th[t].pg])

RelocationFailed(t) == SoReturned(t) /\ th[t].path \in {"isofail", "migfail"}

\* C13 as stated: every failure of the relocation step (isolation, a
\* positive or a negative return of migrate_pages) is returned as -EIO.
C13_RelocationFailureIsEIO ==
    \A t \in Threads : RelocationFailed(t) => th[t].ret = -EIO

\* C13 as the code has it: every failure of the relocation step is returned
\* as a negative error code, never as success: a positive return of
\* migrate_pages becomes -EIO; the error of isolate_lru_page and a negative
\* return of migrate_pages are returned as they are.
C13_RelocationFailureIsNegative ==
    \A t \in Threads :
        RelocationFailed(t)
        => /\ th[t].ret < 0
           /\ th[t].raw # 0
           /\ th[t].raw > 0 => th[t].ret = -EIO
           /\ th[t].raw < 0 => th[t].ret = th[t].raw
           /\ th[t].dl = 0 /\ ~th[t].dp

\* migrate_pages returned -ENOMEM and so did the call.
C13_Witness ==
    \E t \in Threads :
        /\ RelocationFailed(t)
        /\ th[t].path = "migfail"
        /\ th[t].raw = -ENOMEM
        /\ th[t].ret = -ENOMEM

\* C14: a soft offline call that finds the page poisoned under the page
\* lock, after the wait for write-back, returns -EBUSY with the lock
\* released, its reference dropped and the ledger unchanged, and has called
\* neither invalidate nor LRU isolation nor migration.
C14_AlreadyPoisonedIsBusy ==
    \A t \in Threads :
        (SoReturned(t) /\ th[t].path = "busy")
        => /\ th[t].ret = -EBUSY
           /\ th[t].did = {"lock", "unlock"}
           /\ th[t].did \cap Relocation = {}
           /\ th[t].held = 0
           /\ th[t].dl = 0
           /\ ~th[t].dp

\* A call made without MF_COUNT_INCREASED returned -EBUSY on a poisoned page.
C14_Witness ==
    \E t \in Threads :
        /\ SoReturned(t)
        /\ th[t].path = "busy"
        /\ ~th[t].mf
        /\ "locked" \notin page[th[t].pg].flags
        /\ PageHWPoison(page[th[t].pg])

\* The step in which thread t enters unpoison_memory with a frame that is
\* not valid or whose page is not poisoned.
UnpoisonNoop(t) ==
    /\ th[t].pc = "idle"
    /\ ncalls' = ncalls + 1
    /\ th'[t].op = "unpoison"
    /\ \A u \in Threads \ {t} : th'[u] = th[u]
    /\ \/ th'[t].pg = BadPfn
       \/ th'[t].pg \in Pages /\ "hwpoison" \notin page[th'[t].pg].flags

\* C15: unpoison on a valid frame whose page is not poisoned returns 0, on
\* an invalid frame -ENXIO; in both cases the call returns at once and the
\* ledger, the poisoned bit, the reference count, the page lock and the
\* isolation are as before.
C15_UnpoisonNoop ==
    [][\A t \in Threads :
          UnpoisonNoop(t)
          => /\ th'[t].pc = "idle"
             /\ th'[t].ret = IF th'[t].pg = BadPfn THEN -ENXIO ELSE 0
             /\ page' = page
             /\ mce_bad_pages' = mce_bad_pages
             /\ sleep_lock' = sleep_lock
             /\ isolated' = isolated]_vars

\* Both kinds of the call have returned: an invalid frame, and a page in use
\* that is not poisoned.
C15_Witness ==
    \E t, u \in Threads :
        /\ th[t].op = "unpoison" /\ th[t].pc = "idle"
        /\ th[t].path = "badpfn" /\ th[t].ret = -ENXIO
        /\ th[u].op = "unpoison" /\ th[u].pc = "idle"
        /\ th[u].path = "notpoisoned" /\ th[u].ret = 0
        /\ page[th[u].pg].count > 0

(***************************************************************************)
(* Unpoison on its own: every page is poisoned at the start, free (no      *)
(* reference) or in use with the reference the poisoning kept among its    *)
(* references; the ledger counts them; the threads call unpoison only.     *)
(***************************************************************************)
UnpoisonPages ==
    {[flags |-> {"hwpoison", "buddy"}, count |-> 0, mapping |-> NoMapping,
      mapcount |-> 0],
     [flags |-> {"hwpoison"}, count |-> 0, mapping |-> NoMapping, mapcount |-> 0]}
    \cup {[flags |-> fl \cup {"hwpoison"}, count |-> c, mapping |-> mp,
           mapcount |-> 0] :
            fl \in {{}, {"lru"}}, c \in 1..MaxRefs, mp \in {NoMapping, AnonMapping}}

InitUnpoison ==
    /\ cfg_ext = FALSE
    /\ page \in [Pages -> UnpoisonPages]
    /\ PaOff
    /\ HumOff
    /\ mce_bad_pages = NPages
    /\ sleep_lock = 0
    /\ isolated = [p \in Pages |-> FALSE]
    /\ gen = [p \in Pages |-> 0]
    /\ ncalls = 0
    /\ th = [t \in Threads |-> IdleThread]

NextUnpoison ==
    \E t \in Threads :
        \/ \E pfn \in Pages : UnpoisonCall(t, pfn)
        \/ UpGet(t) \/ UpFreeClear(t) \/ UpFreeDec(t)
        \/ UpLock(t) \/ UpClear(t) \/ UpDec(t) \/ UpUnlock(t)
        \/ UpPut1(t) \/ UpPut2(t)

SpecUnpoison == InitUnpoison /\ [][NextUnpoison]_vars

\* The call of thread t found the page poisoned at its entry.
UnpoisonActed(t) ==
    th[t].op = "unpoison" /\ th[t].path \in {"upfree", "uplocked"}

Cleared(t) == "clear" \in th[t].did

\* C16: unpoison on a poisoned page.  Without a reference to raise it
\* clears the bit and takes one off the ledger and touches neither the
\* reference count nor the page lock; otherwise it clears the bit under the
\* page lock, takes one off the ledger, unlocks, and drops its own reference
\* and one more exactly when it was the call that cleared the bit.  Of two
\* calls on the same poisoned page one clears the bit: the ledger goes down
\* once and the extra reference is dropped once.
C16_UnpoisonClearsOnce ==
    /\ \A t \in Threads :
          UnpoisonActed(t)
          => /\ th[t].path = "upfree"
                => /\ th[t].held = 0
                   /\ th[t].did \subseteq {"clear"}
             /\ th[t].pc \in {"up_clear", "up_dec", "up_unlock"}
                => /\ "locked" \in page[th[t].pg].flags
                   /\ th[t].held = 1
             /\ th[t].pc = "idle"
                => /\ th[t].ret = 0
                   /\ th[t].dl = IF Cleared(t) THEN -1 ELSE 0
                   /\ th[t].path = "uplocked"
                      => /\ {"lock", "unlock"} \subseteq th[t].did
                         /\ th[t].held = IF Cleared(t) THEN -1 ELSE 0
    /\ \A t, u \in Threads :
          (t # u /\ UnpoisonActed(t) /\ UnpoisonActed(u) /\ th[t].pg = th[u].pg)
          => /\ ~(Cleared(t) /\ Cleared(u))
             /\ (th[t].pc = "idle" /\ th[u].pc = "idle")
                => /\ Cleared(t) \/ Cleared(u)
                   /\ ~PageHWPoison(page[th[t].pg])
                   /\ th[t].dl + th[u].dl = -1
                   /\ th[t].held + th[u].held \in {-1, 0}
    /\ AllReturned => mce_bad_pages = Cardinality(PoisonedPages)

\* Two calls on the same page both found it poisoned and both took a
\* reference; one cleared the bit and dropped two references, the other
\* found the bit clear under the lock and dropped its own.
C16_Witness ==
    \E t, u \in Threads :
        /\ t # u
        /\ th[t].pc = "idle" /\ th[u].pc = "idle"
        /\ UnpoisonActed(t) /\ UnpoisonActed(u)
        /\ th[t].pg = th[u].pg
        /\ th[t].path = "uplocked" /\ th[u].path = "uplocked"
        /\ Cleared(t) /\ th[t].held = -1
        /\ ~Cleared(u) /\ th[u].held = 0
        /\ mce_bad_pages = NPages - 1

(***************************************************************************)
(* Claims about get_any_page().                                            *)
(***************************************************************************)
\* The call of thread t is between lock_system_sleep() and
\* unlock_system_sleep().
GapHolds(t) ==
    th[t].pc \in {"gap_isolate", "gap_probe", "gap_buddy", "gap_set", "gap_unset",
                  "gap_unlock"}

\* The call of thread t is between set_migratetype_isolate() and
\* unset_migratetype_isolate().
GapIsolates(t) == th[t].pc \in {"gap_probe", "gap_buddy", "gap_set", "gap_unset"}

\* The sleep lock is held by the call that is inside the locked part of
\* get_any_page() and by no other; the isolation of a page is in force
\* while a call is between the set and the unset on that page and at no
\* other time, so it is gone when the sleep lock is released and when the
\* call has returned.
GapLockBalance ==
    /\ \A t \in Threads : (sleep_lock = t) <=> GapHolds(t)
    /\ sleep_lock \in {0} \cup Threads
    /\ \A p \in Pages :
          isolated[p] <=> \E t \in Threads : GapIsolates(t) /\ th[t].pg = p

\* The step of get_any_page() called with MF_COUNT_INCREASED: 1 is
\* returned, no lock is taken, the page is as it was.
GapFlagStep ==
    \A t \in Threads :
        (th[t].pc = "gap_entry" /\ th[t].mf /\ th'[t].pc # "gap_entry")
        => /\ th'[t].pc = "so_chk1"
           /\ th'[t].ret = 1
           /\ th'[t].held = th[t].held
           /\ page' = page
           /\ sleep_lock' = sleep_lock
           /\ isolated' = isolated

\* C21: get_any_page is lock-balanced: on every return path that took them
\* (free page, unknown zero-refcount page, referenced page) the isolation
\* has been unset and then the system-sleep lock released before the
\* return; with the reference-already-held flag it returns 1 without taking
\* either and without changing the reference count; a call that locks the
\* page, invalidates or migrates holds neither.
C21_GetAnyPageLockBalanced == [](GapLockBalance) /\ [][GapFlagStep]_vars

\* A call without the flag has returned the error of the unknown
\* zero-refcount page from get_any_page(); both locks are free.
C21_Witness ==
    /\ sleep_lock = 0
    /\ \A p \in Pages : ~isolated[p]
    /\ \E t \in Threads :
          /\ th[t].pc = "idle" /\ th[t].op = "soft_offline"
          /\ th[t].ret = -EIO /\ th[t].held = 0 /\ th[t].path = "none"
          /\ th[t].did = {} /\ ~th[t].mf

\* Thread t makes a step of the probe of get_any_page(): the attempt to
\* take a reference, the test for a free buddy page, the write of the bit.
GapProbeStep(t) ==
    th[t].pc \in {"gap_probe", "gap_buddy", "gap_set"} /\ th'[t].pc # th[t].pc

\* Thread t is on its way out of get_any_page() in this step.
GapExitStep(t) ==
    th[t].pc \in {"gap_unset", "gap_unlock"} /\ th'[t].pc # th[t].pc

\* C22: get_any_page called without the reference-already-held flag gives
\* one of three results, decided by the page at the probe: 1 with the
\* reference count raised by exactly one when the count was not zero; 0 with
\* the poisoned bit set, the count still zero and the ledger untouched when
\* the count was zero and the page is a free buddy page; -EIO with bit,
\* count and ledger unchanged when the count was zero and the page is not a
\* free buddy page.  The result of the probe is what the call returns.
C22_GetAnyPageThreeResults ==
    [][\A t \in Threads :
        /\ GapProbeStep(t) =>
              LET old == page[th[t].pg]
                  new == page'[th[t].pg]
              IN  /\ mce_bad_pages' = mce_bad_pages
                  /\ th[t].pc = "gap_probe" =>
                        /\ old.count # 0 =>
                              /\ th'[t].pc = "gap_unset"
                              /\ th'[t].ret = 1
                              /\ new = [old EXCEPT !.count = @ + 1]
                        /\ old.count = 0 =>
                              /\ th'[t].pc = "gap_buddy"
                              /\ new = old
                  /\ th[t].pc = "gap_buddy" =>
                        /\ new = old
                        /\ is_free_buddy_page(old) => th'[t].pc = "gap_set"
                        /\ ~is_free_buddy_page(old) =>
                              /\ th'[t].pc = "gap_unset"
                              /\ th'[t].ret = -EIO
                  /\ th[t].pc = "gap_set" =>
                        /\ old.count = 0
                        /\ is_free_buddy_page(old)
                        /\ th'[t].pc = "gap_unset"
                        /\ th'[t].ret = 0
                        /\ new = [old EXCEPT !.flags = @ \cup {"hwpoison"}]
                        /\ new.count = 0
        /\ GapExitStep(t) =>
              /\ th'[t].ret = th[t].ret
              /\ th[t].ret \in {1, 0, -EIO}
              /\ page' = page
              /\ mce_bad_pages' = mce_bad_pages
      ]_vars

(***************************************************************************)
(* Claims about the page lock and the ledger under concurrency.            *)
(***************************************************************************)
\* The call of thread t is between lock_page() and unlock_page().
HoldsPageLock(t) ==
    th[t].pc \in {"so_wb", "so_poisoned", "so_busy_unlock", "so_inval", "so_unlock",
                  "up_clear", "up_dec", "up_unlock"}

\* The poisoned bit of page p changes in this step.
PoisonBitChanges(p) == PageHWPoison(page[p]) # PageHWPoison(page'[p])

\* Thread t takes this step.
Moves(t) == th'[t] # th[t]

\* C23: under any interleaving of soft-offline, get_any_page and unpoison
\* on the same page, the poisoned bit is set or cleared only by a path that
\* holds the page's lock at that moment, and no path changes the bit while
\* another path holds the page lock.
C23_PoisonBitOnlyUnderPageLock ==
    [][\A p \in Pages :
        PoisonBitChanges(p) =>
            /\ \E t \in Threads : Moves(t) /\ th[t].pg = p /\ HoldsPageLock(t)
            /\ ~\E t \in Threads : ~Moves(t) /\ th[t].pg = p /\ HoldsPageLock(t)
      ]_vars

\* The four writes of the poisoned bit and what each holds: the probe of
\* get_any_page() sets it on a free page under the sleep lock and the
\* isolation, the end of soft offline sets it after unlock_page(), unpoison
\* clears it on a page without references without the page lock and on a
\* referenced page under the page lock.
PoisonBitWriters ==
    \A p \in Pages :
        PoisonBitChanges(p) =>
            \E t \in Threads :
                /\ Moves(t) /\ th[t].pg = p
                /\ \/ /\ th[t].pc = "gap_set" /\ PageHWPoison(page'[p])
                      /\ sleep_lock = t /\ isolated[p]
                      /\ is_free_buddy_page(page[p])
                   \/ /\ th[t].pc = "done_set" /\ PageHWPoison(page'[p])
                      /\ ~HoldsPageLock(t)
                   \/ /\ th[t].pc = "up_free_clear" /\ ~PageHWPoison(page'[p])
                      /\ ~HoldsPageLock(t) /\ th[t].held = 0
                   \/ /\ th[t].pc = "up_clear" /\ ~PageHWPoison(page'[p])
                      /\ HoldsPageLock(t)
                      /\ "lock" \in th[t].did /\ "unlock" \notin th[t].did

\* C23 as amended: the poisoned bit of a page on which unpoison has
\* obtained a reference is cleared only while unpoison holds the page's
\* lock; the bit is set by get_any_page (free page, under the allocation
\* exclusion and the sleep lock) and at the end of soft offline, and
\* cleared by unpoison on a page without references, all three without the
\* page lock.
C23_PoisonBitWritersAndLocks == [][PoisonBitWriters]_vars

\* Unpoison has cleared the bit of a referenced page and still holds the
\* page lock.
C23_Witness ==
    \E t \in Threads :
        /\ th[t].op = "unpoison" /\ th[t].pc = "up_dec"
        /\ "lock" \in th[t].did /\ "unlock" \notin th[t].did
        /\ "locked" \in page[th[t].pg].flags
        /\ ~PageHWPoison(page[th[t].pg])
        /\ page[th[t].pg].count >= 1

\* C24: under every interleaving of concurrent soft_offline_page and
\* unpoison_memory calls on the same page the ledger mce_bad_pages is never
\* negative, and once all calls have returned it equals the number of pages
\* whose poisoned bit is set.
C24_LedgerNeverNegativeAndExact ==
    /\ mce_bad_pages >= 0
    /\ AllReturned => mce_bad_pages = Cardinality(PoisonedPages)

(***************************************************************************)
(* Claims about the retry loop, the guards and the order of the steps of   *)
(* hwpoison_user_mappings().                                               *)
(***************************************************************************)
\* The number of "try_to_unmap" entries in the record of the calls made.
RECURSIVE CountEv(_, _)
CountEv(ev, name) ==
    IF ev = <<>> THEN 0
    ELSE (IF Head(ev) = name THEN 1 ELSE 0) + CountEv(Tail(ev), name)

\* The loop is over: the call is at the kill decision or has returned from
\* it.
PastUnmap == hum_pc \in {"kill", "done"} /\ hum_i > 0

\* What holds of the attempts in every state.
UnmapAttemptsBounded ==
    /\ hum_i \in 0..N_UNMAP_TRIES
    /\ CountEv(hum_ev, "try_to_unmap") = hum_i
    /\ hum_pc = "unmap" => hum_i < N_UNMAP_TRIES
    /\ PastUnmap =>
          /\ hum_i >= 1
          /\ hum_ret = "SWAP_SUCCESS" \/ hum_i = N_UNMAP_TRIES
          /\ hum_ret \in {"SWAP_SUCCESS", "SWAP_AGAIN", "SWAP_FAIL"}
          /\ (hum_ret = "SWAP_SUCCESS") <=> ~page_mapped(page[HP])

\* An attempt is made in this step.
UnmapAttemptStep == hum_i' = hum_i + 1

\* No attempt follows one that succeeded, and the result of the attempt is
\* the result the function holds.
UnmapStopsAtSuccess ==
    UnmapAttemptStep =>
        /\ hum_ret # "SWAP_SUCCESS"
        /\ page_mapped(page[HP])
        /\ (hum_ret' = "SWAP_SUCCESS") <=> ~page_mapped(page'[HP])

\* C25: the unmap step of hwpoison_user_mappings always terminates:
\* try_to_unmap is attempted at least once and at most 5 times, no attempt
\* is made after the first that succeeds, and for a page that reached the
\* unmap step the result of the function is success if and only if one of
\* the attempts succeeded (it is the result of the last attempt made).
C25_UnmapRetryTerminates ==
    /\ [](UnmapAttemptsBounded)
    /\ [][UnmapStopsAtSuccess]_vars
    /\ (hum_pc = "unmap") ~> (hum_pc = "done" /\ hum_i > 0)

\* The loop gave up after the fifth attempt and the function returned the
\* failure of that attempt, the page still mapped.
C25_Witness ==
    /\ hum_pc = "done"
    /\ hum_i = N_UNMAP_TRIES
    /\ hum_ret = "SWAP_AGAIN"
    /\ page_mapped(page[HP])

\* The guards are evaluated in this step.
GuardStep == hum_pc = "start" /\ hum_pc' # "start"

\* The names of the steps the guards come before.
LaterSteps == {"page_mkclean", "collect_procs", "try_to_unmap", "SIGKILL", "SIGBUS"}

\* The step returns r from the guards: nothing of the later steps is done.
GuardReturns(r) ==
    /\ hum_pc' = "done"
    /\ hum_ret' = r
    /\ page' = page
    /\ pte_dirty' = pte_dirty
    /\ tokill' = <<>>
    /\ sent' = <<>>
    /\ hum_i' = 0
    /\ \A k \in 1..Len(hum_ev') : hum_ev'[k] \notin LaterSteps

KernelPage(pg) == pg.flags \cap {"reserved", "slab"} # {}

\* C26: the early guards of hwpoison_user_mappings apply in the order
\* reserved/slab, no live mappings, compound/KSM: a mapped compound or KSM
\* page that is neither reserved nor slab is declared failed, a reserved or
\* slab page and an unmapped page (compound or not) are declared success,
\* all without dirty propagation, collector run, try_to_unmap attempt or
\* signal.
C26_GuardOrder ==
    [][GuardStep =>
        LET pg == page[HP] IN
        /\ (KernelPage(pg) \/ ~page_mapped(pg)) => GuardReturns("SWAP_SUCCESS")
        /\ (~KernelPage(pg) /\ page_mapped(pg)
                /\ (PageCompound(pg) \/ PageKsm(pg))) => GuardReturns("SWAP_FAIL")
      ]_vars

\* A mapped compound page that is neither reserved nor slab has been
\* declared failed by the guards.
C26_Witness ==
    /\ hum_pc = "done"
    /\ hum_ret = "SWAP_FAIL"
    /\ hum_i = 0
    /\ sent = <<>>
    /\ PageCompound(page[HP]) /\ ~PageKsm(page[HP])
    /\ page_mapped(page[HP])
    /\ ~KernelPage(page[HP])

\* The place of a recorded call in the order of the function's text; the
\* entries of kill_procs_ao() are the signal sent or "none".
EvRank(e) ==
    CASE e = "hwpoison_user_mappings" -> 0
      [] e = "page_mkclean" -> 1
      [] e = "collect_procs" -> 2
      [] e = "try_to_unmap" -> 3
      [] OTHER -> 4

\* The record of the calls made is in the order of the ranks, and each of
\* the dirty propagation and the collector is run at most once.
EvOrdered ==
    /\ \A i \in 1..Len(hum_ev) : \A j \in (i + 1)..Len(hum_ev) :
          EvRank(hum_ev[i]) <= EvRank(hum_ev[j])
    /\ CountEv(hum_ev, "page_mkclean") <= 1
    /\ CountEv(hum_ev, "collect_procs") <= 1

\* Signals are sent by the step after the loop only.
SignalsAfterLoop ==
    /\ sent # <<>> => hum_pc = "done" /\ hum_i >= 1
    /\ (\E k \in 1..Len(hum_ev) : hum_ev[k] \in {"SIGKILL", "SIGBUS"})
          => hum_pc = "done" /\ hum_i >= 1
    /\ hum_pc \in {"dirtyprop", "collect"} => hum_i = 0

\* Once an attempt to unmap has been made the notify list gets no new
\* entry, and the dirty propagation is not run any more.
NoNotifyAfterUnmap ==
    (hum_i >= 1 /\ hum_pc' # "start") =>
        /\ Len(tokill') <= Len(tokill)
        /\ pte_dirty' = pte_dirty

\* C27: in every execution of hwpoison_user_mappings that reaches the unmap
\* step the events are in this order: dirty propagation, the collector run
\* (if notification is warranted), the first try_to_unmap attempt, the last
\* try_to_unmap attempt, the first signal; no notify entry is added after
\* the first unmap attempt and no signal is sent before the last one.
C27_UnmapProtocolOrder ==
    /\ [](EvOrdered /\ SignalsAfterLoop)
    /\ [][NoNotifyAfterUnmap]_vars

\* A call that did all of it: dirty propagation, collector, more than one
\* attempt to unmap, a signal.
C27_Witness ==
    /\ hum_pc = "done"
    /\ CountEv(hum_ev, "page_mkclean") = 1
    /\ CountEv(hum_ev, "collect_procs") = 1
    /\ hum_i >= 2
    /\ \E k \in 1..Len(sent) : sent[k].sig \in {"SIGKILL", "SIGBUS"}

(***************************************************************************)
(* Claims about the precedence of the rules.                               *)
(***************************************************************************)
\* page_action() is run in this step.
DispatchStep == pa_pc = "ready" /\ pa_pc' = "done"

\* The rule the step dispatches to.
DispatchedRule == error_states(cfg_ext)[pa_rule']

\* C28: first-match precedence routes every dirty page to a dirty action:
\* for every attribute set without reserved, slab or compound bits, a page
\* with the dirty bit is never dispatched to me_pagecache_clean or
\* me_swapcache_clean; a swap-cache page is dispatched to a swap-cache
\* action even if it is also unevictable, mlocked or on the LRU; an
\* unevictable dirty page matches the unevictable-dirty rule before any
\* mlocked or LRU rule.
C28_DirtyPrecedence ==
    [][DispatchStep =>
        LET fl == page[HP].flags
            ps == DispatchedRule
        IN  (fl \cap {"reserved", "slab", "head", "tail", "compound"} = {}) =>
            /\ "dirty" \in fl =>
                  ps.action \notin {"me_pagecache_clean", "me_swapcache_clean"}
            /\ "sc" \in fl =>
                  /\ ps.action \in {"me_swapcache_dirty", "me_swapcache_clean"}
                  /\ ("dirty" \in fl) <=> (ps.action = "me_swapcache_dirty")
            /\ {"unevict", "dirty"} \subseteq fl =>
                  /\ ps.msg \notin {"mlocked LRU", "LRU", "clean LRU"}
                  /\ "sc" \notin fl =>
                        /\ ps.mask = {"unevict", "dirty"}
                        /\ ps.action = "me_pagecache_dirty"
      ]_vars

\* A dirty unevictable page that was mlocked as well has been dispatched
\* by the unevictable-dirty rule.
C28_Witness ==
    /\ pa_pc = "done"
    /\ error_states(cfg_ext)[pa_rule].mask = {"unevict", "dirty"}
    /\ "mlock" \in page[HP].flags
    /\ pa_log # <<>>

(***************************************************************************)
(* Claims about the Mapping Collector.                                     *)
(***************************************************************************)
\* Process t is early-kill eligible and vma i of the chain is one of its
\* address space (and maps the page, for an anonymous page): the tests of
\* the two loops in front of add_to_kill().
ColMatches(t, i) ==
    LET vma == col.pt.vmas[i] IN
    /\ task_early_kill(col.pt.tasks[t], col.pt.sysctl)
    /\ vma.mm = col.pt.tasks[t].mm
    /\ PageAnon(page[HP]) => vma.mapped

Matching == {m \in ColTasks \X (1..Len(col.pt.vmas)) : ColMatches(m[1], m[2])}

FirstMatching == CHOOSE t \in ColTasks :
    /\ \E m \in Matching : m[1] = t
    /\ \A m \in Matching : t <= m[1]

\* The kmalloc(GFP_ATOMIC) calls that failed, by their place in the walk.
AllocFailed == {j \in 1..Len(col.st.calls) : ~col.st.calls[j].ok}

\* The kmalloc(GFP_ATOMIC) calls made.
AllocTried == 1..Len(col.st.calls)

\* The lock operations of a run that has returned are none, or those of
\* tasklist_lock alone, or those of both locks, nested; no lock is held.
ColLocksReleased ==
    col.pc = "done" =>
        /\ col.locks = {}
        /\ \/ col.ev = <<>>
           \/ col.ev = <<<<"lock", "tasklist_lock">>, <<"unlock", "tasklist_lock">>>>
           \/ \E l \in {"anon_vma", "i_mmap_lock"} :
                 col.ev = <<<<"lock", "tasklist_lock">>, <<"lock", l>>,
                            <<"unlock", l>>, <<"unlock", "tasklist_lock">>>>

\* What the walk leaves on the list: an entry of the first matching
\* process by the preallocated slot, one allocation for every later match,
\* an entry for every match whose allocation did not fail, in the order of
\* the table; each failure is logged, the process it was made for loses
\* that entry alone, and the walk has gone through the whole table.
ColWalkResult ==
    LET list == col.st.list IN
    /\ Len(list) >= 1
    /\ list[1].tsk = FirstMatching
    /\ Cardinality(AllocTried) = Cardinality(Matching) - 1
    /\ Len(list) = Cardinality(Matching) - Cardinality(AllocFailed)
    /\ \A t \in ColTasks :
          Cardinality({i \in 1..Len(list) : list[i].tsk = t})
          + Cardinality({j \in AllocFailed : col.st.calls[j].tsk = t})
          = Cardinality({m \in Matching : m[1] = t})
    /\ \A i \in 1..Len(list) : \A j \in (i + 1)..Len(list) : list[i].tsk <= list[j].tsk
    /\ Len(col.st.log) = Cardinality(AllocFailed)
    /\ col.next = NTasks + 1

\* C29: when the Mapping Collector runs on a page mapped by at least one
\* early-kill-eligible process, the notify list has at least one entry
\* even if every allocation of the walk fails: the first matching process
\* takes the slot preallocated before the locks, each later process whose
\* allocation fails is skipped and the walk goes on, and every lock taken
\* is released when the collector returns.
C29_CollectorAlwaysNotifiesOne ==
    /\ ColLocksReleased
    /\ (col.pc = "done" /\ Matching # {}) => ColWalkResult

\* C29 as amended: the same, provided the preallocation of the slot
\* succeeded; when it fails the collector returns at once with an empty
\* list, without a lock taken and without a look at the process table.
C29_CollectorNotifiesOneIfPreallocated ==
    /\ ColLocksReleased
    /\ (col.pc = "done" /\ Matching # {} /\ col.prealloc = "ok") => ColWalkResult
    /\ (col.pc = "done" /\ col.prealloc = "failed") =>
          /\ col.st.list = <<>>
          /\ col.ev = <<>>
          /\ col.next = 0

\* Three matches of two processes: the first process has two vmas, the
\* first of them took the slot and the allocation for the second failed;
\* the walk went on and the next process was added.
C29_Witness ==
    /\ col.pc = "done"
    /\ col.prealloc = "ok"
    /\ Cardinality(Matching) = 3
    /\ Cardinality({m \in Matching : m[1] = 1}) = 2
    /\ AllocFailed = {1}
    /\ col.st.calls[1].tsk = 1
    /\ Len(col.st.list) = 2
    /\ col.st.list[1].tsk = 1
    /\ col.st.list[2].tsk > 1
    /\ col.locks = {}

====
